---- MODULE Spec2Model ----
(***************************************************************************)
(* Model of the book-recommender indexer: the pub/sub push handlers, the   *)
(* review reconciliation service, the downstream API clients with their    *)
(* caches and retry policy, and the task queue client.                     *)
(*                                                                         *)
(* Downstream answers are inputs: every call draws its answer from a small *)
(* set of HTTP statuses and transport failures.  An answer is a record     *)
(* [status, exc]: exc = "none" for an HTTP response with that status code, *)
(* otherwise status = 0 and exc names the httpx exception raised.          *)
(***************************************************************************)
EXTENDS Integers, Sequences, FiniteSets, TLC

\* ------------------------------------------------------------------ state
\* catalog (books) handler
VARIABLES
    bk_pc,          \* "idle", or "received": an envelope was pushed and awaits the handler
    bk_envelope,    \* the envelope of the delivery being handled (NoEnvelope before any)
    bk_answers,     \* the downstream's answer to create_book for each item position
    bk_response,    \* the handler's HTTP response: [status, indexed]
    bk_calls,       \* the create_book calls of this delivery, in order: [pos, book_id]
    bk_published,   \* raw items passed to the audit publisher during this delivery
    bk_aborted      \* an earlier delivery of this envelope was answered 500

bookVars == <<bk_pc, bk_envelope, bk_answers, bk_response, bk_calls, bk_published, bk_aborted>>

\* downstream API and task queue
VARIABLES
    apiBooks,        \* the book ids stored
    apiReviews,      \* the (user_id, book_id) pairs stored at least once
    apiReviewsTwice, \* the pairs stored more than once
    queue            \* the book ids whose task name book-{id} is taken

apiVars == <<apiBooks, apiReviews, apiReviewsTwice, queue>>

\* owner cache
VARIABLES
    user_read_books_cache,  \* entries [user, book_ids, age], least recently used first
    cc_last,                \* the last get_books_read_by_user call made directly on the client
    fetched,                \* per user: the set last obtained from downstream, and the time since
    cc_runs                 \* the runs of calls for owners outside Users made so far

cacheVars == <<user_read_books_cache, cc_last, fetched, cc_runs>>

\* popularity fan-out
VARIABLES
    pop_pc,         \* "idle", "running" (requests in flight) or "returned"
    pop_ids,        \* the book_ids list get_book_popularity was called with
    pop_tasks,      \* one task per list position: its attempts so far and its outcome
    pop_result      \* the book_info map of the returned ApiBookPopularityResponse

popVars == <<pop_pc, pop_ids, pop_tasks, pop_result>>

\* user review service
VARIABLES
    rv_pc,          \* "idle" or "running" (process_pubsub_batch_message is in its owner loop)
    rv_batch,       \* the pubsub_message list of the current or last call
    rv_redelivered, \* the current or last call repeats the batch of the call before it
    rv_k,           \* position of the next owner in user_to_review_batch_dict
    rv_response,    \* [exc, indexed, tasks]: the service response, or the exception raised
    rv_calls,       \* the number of calls made so far
    rv_sent,        \* the number of reviews the downstream accepted during this call
    rv_write_4xx,   \* a batch-create request of this call was answered 4xx other than 429
    rv_fault,       \* a read-books or batch-create request of this call was answered
                    \* 5xx, 429 (batch-create) or failed in transport
    rv_after_fault, \* a write or enqueue call was made in this call after such an answer
    handles_again,  \* book ids for which enqueue_book returned a task name while
                    \* the name was already in the queue
    rv_enqueued,    \* the book ids passed to enqueue_book during this call
    rv_reported,    \* the sum of the `indexed` values the downstream reported to the
                    \* batch-create requests of this call
    rv_exists_5xx,  \* an existence request of this call was answered 5xx or failed
                    \* in transport
    rv_log,         \* the calls this call has made on its clients, in order:
                    \* [op, user_id, reviews, books, ok]
    rv_prior        \* when this call repeats the batch of the call before it: whether
                    \* that call was aborted by a server error, whether all of its
                    \* requests were answered 2xx, what it had written and enqueued

reviewVars == <<rv_pc, rv_batch, rv_redelivered, rv_k, rv_response, rv_calls, rv_sent,
                rv_write_4xx, rv_fault, rv_after_fault, handles_again, rv_enqueued,
                rv_reported, rv_exists_5xx, rv_log, rv_prior>>

\* review filter
VARIABLES
    flt_pc,           \* "idle", "called", "returned" or "raised"
    flt_user_reviews, \* the owner's reviews passed to _remove_reviews_already_indexed
    flt_books_read,   \* the ids get_books_read_by_user returned for the owner
    flt_result,       \* the list _remove_reviews_already_indexed returned
    flt_calls         \* the calls of _remove_reviews_already_indexed made so far

filterVars == <<flt_pc, flt_user_reviews, flt_books_read, flt_result, flt_calls>>

\* task client
VARIABLES
    tq_tasks,   \* the tasks the queue holds: [name, spider, arg]
    tq_called,  \* the keys [spider, arg] enqueued by a call the queue answered
    tq_last     \* the last enqueue call: its key, the queue's fault, what it returned

taskVars == <<tq_tasks, tq_called, tq_last>>

\* BookTaskEnqueuerService.enqueue_books_if_necessary: its position, its argument,
\* the popularity it was given, the existence answer and the ids it reported
\* (NoAnswer while none was asked for), the books handed to enqueue_book, and
\* the response or the exception of the call.
VARIABLES
    enq_pc, enq_book_ids, enq_book_info, enq_exists, enq_present, enq_enqueued,
    enq_response

enqVars == <<enq_pc, enq_book_ids, enq_book_info, enq_exists, enq_present, enq_enqueued, enq_response>>

\* profile handler
VARIABLES
    pf_pc,        \* "idle", or "received": an envelope was pushed and awaits the handler
    pf_envelope,  \* the envelope of the delivery being handled (NoEnvelope before any)
    pf_faults,    \* the queue's failure, or "none", for the create_task of each item position
    pf_response,  \* the handler's HTTP response: [status, tasks]
    pf_published  \* raw items passed to the audit publisher during this delivery

profVars == <<pf_pc, pf_envelope, pf_faults, pf_response, pf_published>>

\* create_book of the v2 client, called directly
VARIABLES
    cb_pc,       \* "idle", or "sent": the PUT is with the downstream
    cb_book_id,  \* the book_id of the current or last call
    cb_answer,   \* what came back for the last PUT: a response or a transport failure
    cb_outcome   \* how the last call ended: "ok" or the exception it raised

putVars == <<cb_pc, cb_book_id, cb_answer, cb_outcome>>

\* partition by owner
VARIABLES
    pt_pc,       \* "idle", "called" or "partitioned"
    pt_message,  \* the pubsub_message list of the call
    pt_dict      \* user_to_review_batch_dict: its items in insertion order,
                 \* each [user_id, reviews]

partVars == <<pt_pc, pt_message, pt_dict>>

\* audit client
VARIABLES
    au_pc,              \* "idle", "publishing", "registering", "waiting" or "returned"
    au_messages,        \* the messages list of the call
    au_futures,         \* publish_futures: each "pending", "confirmed", "failed" or "failed_timeout"
    au_waited,          \* seconds spent in futures.wait so far
    au_called,          \* positions whose callback has run
    au_logged,          \* positions whose callback logged "timed out"
    au_callback_raised  \* positions whose callback raised

auditVars == <<au_pc, au_messages, au_futures, au_waited, au_called, au_logged, au_callback_raised>>

\* concurrent owner lookups
VARIABLES
    lk_pc,      \* per lookup: "idle", "check", "fetch", "store" or "done"
    lk_user,    \* the owner the lookups of this round ask for
    lk_missing, \* the cache had no live entry for the owner when the round began
    lk_answer,  \* per lookup: the downstream answer it received, if it asked
    lk_result,  \* per lookup: the set it returned
    lk_exc      \* per lookup: the exception it raised, or "none"

lookupVars == <<lk_pc, lk_user, lk_missing, lk_answer, lk_result, lk_exc>>

vars == <<bookVars, cacheVars, popVars, reviewVars, apiVars, filterVars, taskVars, enqVars, profVars, putVars, partVars, auditVars, lookupVars>>

\* What the actions of one component leave alone.
OnlyBooks == UNCHANGED <<cacheVars, popVars, reviewVars, apiReviews, apiReviewsTwice, queue, filterVars, taskVars, enqVars, profVars, putVars, partVars, auditVars, lookupVars>>
OnlyCache == UNCHANGED <<bookVars, popVars, reviewVars, apiVars, filterVars, taskVars, enqVars, profVars, putVars, partVars, auditVars, lookupVars>>
OnlyPop == UNCHANGED <<bookVars, cacheVars, reviewVars, apiVars, filterVars, taskVars, enqVars, profVars, putVars, partVars, auditVars, lookupVars>>
OnlyReviews == UNCHANGED <<bookVars, popVars, cc_last, fetched, cc_runs, filterVars, taskVars, enqVars, profVars, putVars, partVars, auditVars, lookupVars>>
OnlyApi == UNCHANGED <<bookVars, popVars, cacheVars, reviewVars, filterVars, taskVars, enqVars, profVars, putVars, partVars, auditVars, lookupVars>>

\* ------------------------------------------------------------------ bounds
NumBooks == 2
MaxBatch == 2

\* The book ids of the model: integers as the program casts them, seven
\* apart, so that a Python set of them is not iterated in numeric order.
Books == {1 + 7 * (n - 1) : n \in 1..NumBooks}

\* Python's None as the result of a call that can also return an item batch.
NoBatch == [is_none |-> TRUE, items |-> <<>>]
NoEnvelope == [kind |-> "none", items |-> <<>>]

\* --------------------------------------------------------- HTTP answers
Http(s) == [status |-> s, exc |-> "none"]
Transport(e) == [status |-> 0, exc |-> e]

\* httpx.Response.is_error / is_client_error / is_server_error
is_client_error(a) == a.exc = "none" /\ a.status >= 400 /\ a.status <= 499
is_server_error(a) == a.exc = "none" /\ a.status >= 500 /\ a.status <= 599
is_error(a) == is_client_error(a) \/ is_server_error(a)

\* The answers the downstream gives to a write call in this model.
WriteAnswers == {Http(200), Http(422), Http(500), Transport("ReadTimeout")}

\* ------------------------------------------------- catalog (books) handler

\* A raw item of a catalog batch: its book id, whether PubSubBookV1 accepts it
\* and what PubSubBookV1(**book) raises when it does not.  A field of the wrong
\* type or a date that dateutil cannot read gives a ValidationError; a date
\* field such as '99999999999999999999999999' makes dateutil's parse raise
\* OverflowError, which pydantic does not wrap into a ValidationError.
RawBooks ==
    [book_id : Books, valid : {TRUE}, exc : {"none"}]
    \cup [book_id : Books, valid : {FALSE}, exc : {"ValidationError", "OverflowError"}]

SeqsUpTo(S, n) == UNION {[1..k -> S] : k \in 0..n}

\* The payloads the bus can hand over: a well-formed item batch or a malformed one.
MalformedKinds == {"bad_base64", "bad_utf8", "bad_json", "not_an_object", "no_items"}
Envelopes ==
    {[kind |-> "ok", items |-> s] : s \in SeqsUpTo(RawBooks, MaxBatch)}
    \cup {[kind |-> k, items |-> <<>>] : k \in MalformedKinds}

\* PubSubItemBatch(**json_payload): a JSON object without the `items` shape is
\* rejected with a ValidationError.
PubSubItemBatchAccepts(env) == env.kind = "ok"

\* _unpack_envelope: every except branch logs and falls off the end of the
\* function, so a payload that cannot be decoded yields None.
unpack_envelope(env) ==
    IF env.kind \in {"bad_base64", "bad_utf8", "bad_json", "not_an_object"} THEN NoBatch
    ELSE IF ~PubSubItemBatchAccepts(env) THEN NoBatch
    ELSE [is_none |-> FALSE, items |-> env.items]

\* create_book with the 429 branch of the other client methods: logged, no raise.
create_book_429_logged(a) ==
    IF a.exc # "none" THEN "BookRecommenderApiServerException"
    ELSE IF ~is_error(a) THEN "ok"
    ELSE IF a.status = 429 THEN "ok"
    ELSE IF is_client_error(a) THEN "BookRecommenderApiClientException"
    ELSE "BookRecommenderApiServerException"

\* create_book: the outcome of one PUT.
create_book(a) ==
    IF a.exc # "none" THEN "BookRecommenderApiServerException"
    ELSE IF ~is_error(a) THEN "ok"
    ELSE IF is_client_error(a) THEN "BookRecommenderApiClientException"
    ELSE "BookRecommenderApiServerException"

\* The for loop of handle_pubsub_message with the raw item appended to
\* successful_books before create_book is called.
RECURSIVE BookLoop_audit_before_write(_, _, _, _)
BookLoop_audit_before_write(items, answers, i, acc) ==
    IF i > Len(items) THEN acc
    ELSE IF items[i].exc = "ValidationError"
    THEN BookLoop_audit_before_write(items, answers, i + 1, acc)
    ELSE IF items[i].exc # "none" THEN [acc EXCEPT !.exit = items[i].exc]
    ELSE LET out == create_book(answers[i])
             called == [acc EXCEPT !.calls = Append(@, [pos |-> i, book_id |-> items[i].book_id]),
                                   !.successful_books = Append(@, items[i])]
         IN IF out = "ok"
            THEN BookLoop_audit_before_write(items, answers, i + 1,
                          [called EXCEPT !.indexed = @ + 1,
                                         !.stored = @ \cup {items[i].book_id}])
            ELSE [called EXCEPT !.exit = out]

\* The for loop of handle_pubsub_message.  The inner try catches the
\* ValidationError of one item and continues; any other exception of
\* PubSubBookV1(**book) leaves the loop.  The try that catches the client's
\* exceptions encloses the whole loop, so either exception ends the loop.
RECURSIVE BookLoop(_, _, _, _)
BookLoop(items, answers, i, acc) ==
    IF i > Len(items) THEN acc
    ELSE IF items[i].exc = "ValidationError" THEN BookLoop(items, answers, i + 1, acc)
    ELSE IF items[i].exc # "none" THEN [acc EXCEPT !.exit = items[i].exc]
    ELSE LET out == create_book(answers[i])
             called == [acc EXCEPT !.calls = Append(@, [pos |-> i, book_id |-> items[i].book_id])]
         IN IF out = "ok"
            THEN BookLoop(items, answers, i + 1,
                          [called EXCEPT !.indexed = @ + 1,
                                         !.successful_books = Append(@, items[i]),
                                         !.stored = @ \cup {items[i].book_id}])
            ELSE [called EXCEPT !.exit = out]

BookLoopStart == [indexed |-> 0, successful_books |-> <<>>, calls |-> <<>>,
                  stored |-> {}, exit |-> "end"]

\* handle_pubsub_message with the server exception logged like the client
\* exception instead of answered with 500.
books_handle_pubsub_message_no_abort(env, answers) ==
    LET batch == unpack_envelope(env) IN
    IF batch.is_none
    THEN [status |-> 500, indexed |-> 0, published |-> <<>>, calls |-> <<>>, stored |-> {}]
    ELSE LET r == BookLoop(batch.items, answers, 1, BookLoopStart) IN
         IF r.exit = "OverflowError"
         THEN [status |-> 500, indexed |-> 0, published |-> <<>>,
               calls |-> r.calls, stored |-> r.stored]
         ELSE [status |-> 200, indexed |-> r.indexed, published |-> r.successful_books,
               calls |-> r.calls, stored |-> r.stored]

\* handle_pubsub_message of routes/pubsub_books.py, for one delivery.
\* batch.items on None raises AttributeError and PubSubBookV1(**book) can raise
\* OverflowError; no except clause catches either, so the framework answers
\* 500 and send_batch is not reached.  The server exception of the client is
\* caught and answered with 500.
books_handle_pubsub_message(env, answers) ==
    LET batch == unpack_envelope(env) IN
    IF batch.is_none
    THEN [status |-> 500, indexed |-> 0, published |-> <<>>, calls |-> <<>>, stored |-> {}]
    ELSE LET r == BookLoop(batch.items, answers, 1, BookLoopStart) IN
         IF r.exit \in {"BookRecommenderApiServerException", "OverflowError"}
         THEN [status |-> 500, indexed |-> 0, published |-> <<>>,
               calls |-> r.calls, stored |-> r.stored]
         ELSE [status |-> 200, indexed |-> r.indexed,
               published |-> r.successful_books,
               calls |-> r.calls, stored |-> r.stored]

BooksInit ==
    /\ bk_pc = "idle"
    /\ bk_envelope = NoEnvelope
    /\ bk_answers = <<>>
    /\ bk_response = [status |-> 0, indexed |-> 0]
    /\ bk_calls = <<>>
    /\ bk_published = <<>>
    /\ bk_aborted = FALSE
    /\ apiBooks = {}

BooksReceive(env, aborted) ==
    /\ bk_pc' = "received"
    /\ bk_envelope' = env
    /\ bk_aborted' = aborted
    /\ bk_answers' = <<>>
    /\ bk_response' = [status |-> 0, indexed |-> 0]
    /\ bk_calls' = <<>>
    /\ bk_published' = <<>>
    /\ UNCHANGED apiBooks
    /\ OnlyBooks

\* The bus pushes a new batch (the previous one was acknowledged).
BooksDeliver ==
    /\ bk_pc = "idle"
    /\ bk_response.status # 500
    /\ \E env \in Envelopes : BooksReceive(env, FALSE)

\* The bus pushes again the batch whose last delivery was answered 500.
BooksRedeliver ==
    /\ bk_pc = "idle"
    /\ bk_response.status = 500
    /\ BooksReceive(bk_envelope, TRUE)

\* The handler runs on the delivered envelope; the downstream's answers to its
\* create_book calls are drawn per item position.
BooksHandle ==
    /\ bk_pc = "received"
    /\ \E answers \in [1..Len(bk_envelope.items) -> WriteAnswers] :
          LET out == books_handle_pubsub_message(bk_envelope, answers) IN
          /\ bk_pc' = "idle"
          /\ bk_answers' = answers
          /\ bk_response' = [status |-> out.status, indexed |-> out.indexed]
          /\ bk_calls' = out.calls
          /\ bk_published' = out.published
          /\ apiBooks' = apiBooks \cup out.stored
          /\ UNCHANGED <<bk_envelope, bk_aborted>>
          /\ OnlyBooks


\* ----------------------------------------------- owner cache (TTLCache)
NumUsers == 2
Users == 1..NumUsers

\* user_read_book_cache = TTLCache(maxsize=2000, ttl=60 * 10)
maxsize == 2000
ttl == 600


\* Time passes in steps that reach the end of the ttl window exactly.
TickSteps == {ttl \div 2}

\* The lists of read books the downstream answers with.
ReadLists == {{}, {1}, Books}

Min(a, b) == IF a < b THEN a ELSE b

\* TTLCache.expire: entries whose time-to-live has run out are dropped.
cache_expire(cache) == SelectSeq(cache, LAMBDA e : e.age < ttl)

cache_index(cache, u) ==
    IF \E i \in 1..Len(cache) : cache[i].user = u
    THEN CHOOSE i \in 1..Len(cache) : cache[i].user = u
    ELSE 0

cache_without(cache, u) == SelectSeq(cache, LAMBDA e : e.user # u)

\* TTLCache.__contains__: the key is linked and its entry has not expired.
cache_contains(cache, u) ==
    \E i \in 1..Len(cache) : cache[i].user = u /\ cache[i].age < ttl

\* TTLCache.__getitem__ on a live key: the value; the key becomes the most
\* recently used one and keeps its expiry time.
cache_getitem(cache, u) ==
    LET e == cache[cache_index(cache, u)] IN
    [value |-> e.book_ids, cache |-> Append(cache_without(cache, u), e)]

\* The number of keys in the cache.  An entry stands for n keys: 1 for an
\* owner of Users, and the number of owners for a run of owners outside Users
\* that were stored one after the other.
RECURSIVE cache_currsize(_)
cache_currsize(cache) ==
    IF cache = <<>> THEN 0 ELSE Head(cache).n + cache_currsize(Tail(cache))

\* TTLCache.popitem, m times: the least recently used keys are removed.
RECURSIVE cache_popitems(_, _)
cache_popitems(cache, m) ==
    IF m <= 0 \/ cache = <<>> THEN cache
    ELSE IF Head(cache).n > m THEN <<[Head(cache) EXCEPT !.n = @ - m]>> \o Tail(cache)
    ELSE cache_popitems(Tail(cache), m - Head(cache).n)

\* TTLCache.__setitem__: expired entries are purged, the least recently used
\* entry makes room when the cache is full, the new entry expires ttl from now.
cache_setitem(cache, u, ids) ==
    LET live == cache_without(cache_expire(cache), u)
        room == IF cache_currsize(live) >= maxsize THEN cache_popitems(live, 1) ELSE live
    IN Append(room, [user |-> u, book_ids |-> ids, age |-> 0, n |-> 1])

\* The lengths of the runs of calls for owners outside Users that fall
\* between two calls for an owner of Users: one call, half the cache, and one
\* or two less than the cache holds.
OtherRuns == {1, maxsize \div 2, maxsize - 2, maxsize - 1}

\* The runs of calls for other owners that are followed.
MaxRuns == 2

\* __setitem__ for k owners outside Users, none of whom has an entry, one
\* after the other: each purges the expired entries and, when the cache is
\* full, removes the least recently used key.  The k entries are held as one
\* entry with the count k.
cache_setitem_others(cache, k) ==
    LET live == cache_expire(cache)
        room == cache_popitems(live, cache_currsize(live) + k - maxsize)
    IN Append(room, [user |-> 0, book_ids |-> {}, age |-> 0, n |-> k])

\* The passing of d seconds, seen from the cache's timer.
cache_age(cache, d) == [i \in 1..Len(cache) |-> [cache[i] EXCEPT !.age = Min(ttl, @ + d)]]

\* The answers of GET /users/{id}/book-ids.
BookIdsAnswers ==
    {[status |-> 200, exc |-> "none", book_ids |-> S] : S \in ReadLists}
    \cup {[status |-> st, exc |-> "none", book_ids |-> {}] : st \in {404, 500}}
    \cup {[status |-> 0, exc |-> "ReadTimeout", book_ids |-> {}]}

\* get_books_read_by_user with a 5xx or transport failure remembered as "no
\* books read" before the exception is raised.
get_books_read_by_user_failure_cached(cache, u, answer) ==
    IF cache_contains(cache, u)
    THEN LET hit == cache_getitem(cache, u) IN
         [result |-> hit.value, exc |-> "none", cache |-> hit.cache, requested |-> FALSE]
    ELSE IF answer.exc = "none" /\ ~is_error(answer)
    THEN [result |-> answer.book_ids, exc |-> "none",
          cache |-> cache_setitem(cache, u, answer.book_ids), requested |-> TRUE]
    ELSE IF answer.exc = "none" /\ is_client_error(answer)
    THEN [result |-> {}, exc |-> "none",
          cache |-> cache_setitem(cache, u, {}), requested |-> TRUE]
    ELSE [result |-> {}, exc |-> "BookRecommenderApiServerException",
          cache |-> cache_setitem(cache, u, {}), requested |-> TRUE]

\* get_books_read_by_user(user_id), given the answer the downstream would give.
get_books_read_by_user(cache, u, answer) ==
    IF cache_contains(cache, u)
    THEN LET hit == cache_getitem(cache, u) IN
         [result |-> hit.value, exc |-> "none", cache |-> hit.cache, requested |-> FALSE]
    ELSE IF answer.exc # "none"
    THEN [result |-> {}, exc |-> "BookRecommenderApiServerException",
          cache |-> cache, requested |-> TRUE]
    ELSE IF ~is_error(answer)
    THEN [result |-> answer.book_ids, exc |-> "none",
          cache |-> cache_setitem(cache, u, answer.book_ids), requested |-> TRUE]
    ELSE IF is_client_error(answer)
    THEN [result |-> {}, exc |-> "none",
          cache |-> cache_setitem(cache, u, {}), requested |-> TRUE]
    ELSE [result |-> {}, exc |-> "BookRecommenderApiServerException",
          cache |-> cache, requested |-> TRUE]

NoLookupAnswer == [status |-> 0, exc |-> "unused", book_ids |-> {}]

NoFetch == [known |-> FALSE, book_ids |-> {}, elapsed |-> 0, status |-> 0]

CacheInit ==
    /\ user_read_books_cache = <<>>
    /\ cc_last = [user |-> 0, result |-> {}, exc |-> "none", requested |-> FALSE,
                  prior |-> NoFetch, status |-> 0]
    /\ fetched = [u \in Users |-> NoFetch]
    /\ cc_runs = 0

\* A caller asks the client for the books read by user u; the downstream
\* answers when the client makes its request, which it does on a miss.
CacheLookup ==
    \E u \in Users :
    \E answer \in (IF cache_contains(user_read_books_cache, u)
                   THEN {NoLookupAnswer} ELSE BookIdsAnswers) :
    \E r \in {get_books_read_by_user(user_read_books_cache, u, answer)} :
        /\ user_read_books_cache' = r.cache
        /\ cc_last' = [user |-> u, result |-> r.result, exc |-> r.exc,
                       requested |-> r.requested, prior |-> fetched[u],
                       status |-> IF r.requested THEN answer.status ELSE 0]
        /\ fetched' = IF r.requested /\ r.exc = "none"
                      THEN [fetched EXCEPT ![u] = [known |-> TRUE, book_ids |-> r.result,
                                                  elapsed |-> 0, status |-> answer.status]]
                      ELSE fetched
        /\ UNCHANGED cc_runs
        /\ OnlyCache

\* get_books_read_by_user is called for k owners outside Users, one call
\* after the other, none of whom has an entry, and every request is answered
\* with a list or a 4xx.
CacheOthers ==
    /\ cc_runs < MaxRuns
    /\ \E k \in OtherRuns :
          user_read_books_cache' = cache_setitem_others(user_read_books_cache, k)
    /\ cc_runs' = cc_runs + 1
    /\ UNCHANGED <<cc_last, fetched>>
    /\ OnlyCache

\* Time passes on the cache's timer, the wall clock: between two calls and
\* while a call is under way.
CacheTick ==
    \E d \in TickSteps :
        /\ \E i \in 1..Len(user_read_books_cache) : user_read_books_cache[i].age < ttl
        /\ user_read_books_cache' = cache_age(user_read_books_cache, d)
        /\ fetched' = [u \in Users |-> IF fetched[u].known
                                       THEN [fetched[u] EXCEPT !.elapsed = Min(ttl, @ + d)]
                                       ELSE fetched[u]]
        /\ UNCHANGED <<cc_last, cc_runs>>
        /\ OnlyCache

\* ------------------------------------------------- popularity fan-out
\* stop=stop_after_attempt(3)
stop_after_attempt == 3
BOOK_POPULARITY_THRESHOLD == 5

\* The answers of GET /users/book-popularity/{id}?limit=5.
PopAnswers ==
    {[status |-> 200, exc |-> "none", user_count |-> c]
        : c \in {BOOK_POPULARITY_THRESHOLD - 1, BOOK_POPULARITY_THRESHOLD}}
    \cup {[status |-> st, exc |-> "none", user_count |-> 0] : st \in {404, 429, 500, 503, 504}}
    \cup {[status |-> 0, exc |-> e, user_count |-> 0]
            : e \in {"ConnectError", "ConnectTimeout", "ReadTimeout"}}

\* One attempt of _make_book_popularity_request: what its body returns or raises.
popularity_attempt(a) ==
    IF a.exc # "none" THEN a.exc
    ELSE IF ~is_error(a) THEN "ok"
    ELSE IF a.status \in {504, 503, 429} THEN "RetryableException"
    ELSE "NonRetryableException"

\* The retry condition with NonRetryableException among the retried types.
retry_if_exception_type_every_custom(raised) ==
    raised \in {"RetryableException", "NonRetryableException", "ConnectError", "ConnectTimeout"}

\* retry=retry_if_exception_type((RetryableException, ConnectError, ConnectTimeout))
retry_if_exception_type(raised) ==
    raised \in {"RetryableException", "ConnectError", "ConnectTimeout"}

\* The retry decorator with one attempt more.
retry_stop_late(attempt_number) == attempt_number >= stop_after_attempt + 1

\* stop_after_attempt(3): no further attempt once this many were made.
retry_stop(attempt_number) == attempt_number >= stop_after_attempt

\* retryable_statuses counts the 429/503/504 answers the task has been given.
NewTask == [attempts |-> 0, retryable_statuses |-> 0, state |-> "pending",
            outcome |-> "none", user_count |-> 0]

\* The task after one more attempt that got answer a: a value ends it, an
\* exception of a retried type ends it with RetryError once the attempts are
\* used up, any other exception ends it at once.
make_book_popularity_request(task, a) ==
    LET raised == popularity_attempt(a)
        n == task.attempts + 1
        seen == [task EXCEPT !.attempts = n,
                             !.retryable_statuses =
                                 @ + (IF a.status \in {429, 503, 504} THEN 1 ELSE 0)]
    IN IF raised = "ok"
       THEN [seen EXCEPT !.state = "done", !.outcome = "ok", !.user_count = a.user_count]
       ELSE IF retry_if_exception_type(raised)
       THEN IF retry_stop(n)
            THEN [seen EXCEPT !.state = "done", !.outcome = "RetryError"]
            ELSE seen
       ELSE [seen EXCEPT !.state = "done", !.outcome = raised]

\* The older client's decorator: retry=retry_if_exception_type(RetryableException)
retry_if_exception_type_v1(raised) == raised = "RetryableException"

\* _make_book_popularity_request of the older client: the same body under the
\* older decorator.
make_book_popularity_request_v1(task, a) ==
    LET raised == popularity_attempt(a)
        n == task.attempts + 1
        seen == [task EXCEPT !.attempts = n,
                             !.retryable_statuses =
                                 @ + (IF a.status \in {429, 503, 504} THEN 1 ELSE 0)]
    IN IF raised = "ok"
       THEN [seen EXCEPT !.state = "done", !.outcome = "ok", !.user_count = a.user_count]
       ELSE IF retry_if_exception_type_v1(raised)
       THEN IF retry_stop(n)
            THEN [seen EXCEPT !.state = "done", !.outcome = "RetryError"]
            ELSE seen
       ELSE [seen EXCEPT !.state = "done", !.outcome = raised]

\* A dict: its keys in insertion order and the value of each key.  An
\* assignment to a key the dict holds keeps the key's place.
DictSet(m, k, v) ==
    [keys |-> IF k \in DOMAIN m.map THEN m.keys ELSE Append(m.keys, k),
     map |-> [x \in DOMAIN m.map \cup {k} |-> IF x = k THEN v ELSE m.map[x]]]

EmptyDict == [keys |-> <<>>, map |-> [x \in {} |-> 0]]

\* The loop over the gathered results without its second skip: only RetryError
\* and NonRetryableException are passed over.
RECURSIVE gather_book_info_first_skip_only(_, _, _, _)
gather_book_info_first_skip_only(ids, tasks, i, book_info) ==
    IF i > Len(tasks) THEN book_info
    ELSE IF tasks[i].outcome \in {"RetryError", "NonRetryableException"}
    THEN gather_book_info_first_skip_only(ids, tasks, i + 1, book_info)
    ELSE gather_book_info_first_skip_only(ids, tasks, i + 1,
                                          DictSet(book_info, ids[i], tasks[i].user_count))

\* The loop over the gathered results: exceptions are skipped, every value sets
\* book_info[book_id] = user_count.
RECURSIVE gather_book_info(_, _, _, _)
gather_book_info(ids, tasks, i, book_info) ==
    IF i > Len(tasks) THEN book_info
    ELSE IF tasks[i].outcome \in {"RetryError", "NonRetryableException"}
    THEN gather_book_info(ids, tasks, i + 1, book_info)
    ELSE IF tasks[i].outcome # "ok"
    THEN gather_book_info(ids, tasks, i + 1, book_info)
    ELSE gather_book_info(ids, tasks, i + 1, DictSet(book_info, ids[i], tasks[i].user_count))

PopInit ==
    /\ pop_pc = "idle"
    /\ pop_ids = <<>>
    /\ pop_tasks = <<>>
    /\ pop_result = EmptyDict

\* get_book_popularity(book_ids): one task per list element is created.
PopCall ==
    /\ pop_pc \in {"idle", "returned"}
    /\ \E ids \in SeqsUpTo(Books, MaxBatch) :
          /\ pop_ids' = ids
          /\ pop_tasks' = [i \in 1..Len(ids) |-> NewTask]
    /\ pop_pc' = "running"
    /\ pop_result' = EmptyDict
    /\ OnlyPop

\* One of the concurrent tasks makes its next attempt and gets an answer.
PopAttempt ==
    /\ pop_pc = "running"
    /\ \E i \in 1..Len(pop_tasks) : \E a \in PopAnswers :
          /\ pop_tasks[i].state = "pending"
          /\ pop_tasks' = [pop_tasks EXCEPT ![i] = make_book_popularity_request(@, a)]
    /\ UNCHANGED <<pop_pc, pop_ids, pop_result>>
    /\ OnlyPop

\* The aggregation on the first task that has ended instead of on all of them.
PopReturn_first_completed ==
    /\ pop_pc = "running"
    /\ \E i \in 1..Len(pop_tasks) : pop_tasks[i].state = "done"
    /\ pop_result' = gather_book_info(pop_ids,
                        [i \in 1..Len(pop_tasks) |->
                            IF pop_tasks[i].state = "done" THEN pop_tasks[i]
                            ELSE [pop_tasks[i] EXCEPT !.outcome = "CancelledError"]],
                        1, EmptyDict)
    /\ pop_pc' = "returned"
    /\ UNCHANGED <<pop_ids, pop_tasks>>
    /\ OnlyPop

\* asyncio.gather hands over the results once every task has ended; the call
\* returns the aggregated response.
PopReturn ==
    /\ pop_pc = "running"
    /\ \A i \in 1..Len(pop_tasks) : pop_tasks[i].state = "done"
    /\ pop_result' = gather_book_info(pop_ids, pop_tasks, 1, EmptyDict)
    /\ pop_pc' = "returned"
    /\ UNCHANGED <<pop_ids, pop_tasks>>
    /\ OnlyPop

\* ------------------------------------------------------------ Python sets
\* set(...) of book ids as the interpreter keeps it: an open-addressing table
\* of mask + 1 slots, a slot holding a key, -1 (never used) or -2 (a key that
\* was removed).  A book id hashes to itself.  Iterating a set walks the
\* table by slot, which fixes the order of `for book_id in <set>` and of
\* list(<set>).
set_new == [mask |-> 7, table |-> [j \in 0..7 |-> -1], fill |-> 0, used |-> 0]

\* The slot where the probe sequence of key ends: the first slot that is
\* unused or holds key.  From slot i the 9 slots after it are looked at too
\* when they lie inside the table; then the sequence jumps.
RECURSIVE set_lookkey(_, _, _, _, _)
set_lookkey(table, mask, key, i, perturb) ==
    LET probes == IF i + 9 <= mask THEN 9 ELSE 0
        hits == {j \in i..(i + probes) : table[j] = -1 \/ table[j] = key}
    IN IF hits # {} THEN CHOOSE j \in hits : \A k \in hits : j <= k
       ELSE set_lookkey(table, mask, key,
                        (i * 5 + 1 + (perturb \div 32)) % (mask + 1), perturb \div 32)

\* The keys entered one after the other into a table that holds none of them.
RECURSIVE set_insert_clean(_, _, _)
set_insert_clean(table, mask, keys) ==
    IF keys = <<>> THEN table
    ELSE LET k == Head(keys)
             j == set_lookkey(table, mask, k, k % (mask + 1), k)
         IN set_insert_clean([table EXCEPT ![j] = k], mask, Tail(keys))

\* list(so): the keys by slot.
set_keys(so) == SelectSeq([j \in 1..(so.mask + 1) |-> so.table[j - 1]], LAMBDA k : k >= 0)

RECURSIVE set_newsize(_, _)
set_newsize(newsize, minused) ==
    IF newsize <= minused THEN set_newsize(2 * newsize, minused) ELSE newsize

\* The table rebuilt with the first power of two above minused as its size.
set_table_resize(so, minused) ==
    LET newsize == set_newsize(8, minused)
        keys == set_keys(so)
    IN [mask |-> newsize - 1,
        table |-> set_insert_clean([j \in 0..(newsize - 1) |-> -1], newsize - 1, keys),
        fill |-> Len(keys), used |-> Len(keys)]

\* so.add(key): the table grows once three fifths of it are filled.
set_add(so, key) ==
    LET j == set_lookkey(so.table, so.mask, key, key % (so.mask + 1), key) IN
    IF so.table[j] = key THEN so
    ELSE LET t == [so EXCEPT !.table[j] = key, !.fill = @ + 1, !.used = @ + 1] IN
         IF t.fill * 5 < t.mask * 3 THEN t
         ELSE set_table_resize(t, IF t.used > 50000 THEN t.used * 2 ELSE t.used * 4)

\* so.update(seq)
RECURSIVE set_update(_, _)
set_update(so, seq) ==
    IF seq = <<>> THEN so ELSE set_update(set_add(so, Head(seq)), Tail(seq))

\* set(seq) of a list
py_set(seq) == set_update(set_new, seq)

\* A copy of so: slot by slot when the new table has the size of so's,
\* else the keys of so entered by slot order.
set_copy(so) ==
    LET c == IF so.used * 5 >= set_new.mask * 3
             THEN set_table_resize(set_new, so.used * 2) ELSE set_new
    IN IF c.mask = so.mask
       THEN [c EXCEPT !.table = so.table, !.fill = so.used, !.used = so.used]
       ELSE [c EXCEPT !.table = set_insert_clean(c.table, c.mask, set_keys(so)),
                      !.fill = so.used, !.used = so.used]

\* so - other, other given by its keys: a set much larger than other is
\* copied and other's keys are removed from the copy; otherwise the keys of
\* so that are not in other are added to a new set by slot order.
set_difference(so, other) ==
    IF so.used \div 4 > Cardinality(other)
    THEN LET c == set_copy(so) IN
         [c EXCEPT !.table = [j \in DOMAIN c.table |->
                                 IF c.table[j] \in other THEN -2 ELSE c.table[j]],
                   !.used = Cardinality({j \in DOMAIN c.table :
                                            c.table[j] >= 0 /\ c.table[j] \notin other})]
    ELSE set_update(set_new, SelectSeq(set_keys(so), LAMBDA k : k \notin other))

\* -------------------------------------------------- user review service
\* The ratings, read dates and scrape times the reviews of one owner and book
\* carry: any two of them differ, and each differs from the first in one field.
ReviewVariants ==
    <<[user_rating |-> 1, date_read |-> 1, scrape_time |-> 1],
      [user_rating |-> 1, date_read |-> 2, scrape_time |-> 1],
      [user_rating |-> 2, date_read |-> 1, scrape_time |-> 1],
      [user_rating |-> 1, date_read |-> 1, scrape_time |-> 2]>>

\* PubSubUserReviewV1: user_id, book_id, user_rating, date_read, scrape_time.
PubSubUserReviewV1(user_id, book_id, v) ==
    [user_id |-> user_id, book_id |-> book_id, user_rating |-> v.user_rating,
     date_read |-> v.date_read, scrape_time |-> v.scrape_time]

\* Two reviews are equal when all five fields are, so the reviews of one
\* (owner, book) pair can differ.
Reviews ==
    {PubSubUserReviewV1(u, b, ReviewVariants[v]) :
        u \in Users, b \in Books, v \in DOMAIN ReviewVariants}

variant_of(r) ==
    CHOOSE v \in DOMAIN ReviewVariants :
        r = PubSubUserReviewV1(r.user_id, r.book_id, ReviewVariants[v])

\* The program reads user_rating, date_read and scrape_time only when
\* list.remove compares two reviews of a group, so which reviews of an owner
\* and book are equal matters and not the values they hold: the reviews of
\* an (owner, book) pair take the variants in the order of ReviewVariants,
\* a review carrying either a variant an earlier review of the pair carries
\* or the first one none of them carries.
InOrderOfAppearance(m) ==
    \A i \in 1..Len(m) : \A v \in 1..(variant_of(m[i]) - 1) :
        \E j \in 1..(i - 1) : /\ m[j].user_id = m[i].user_id
                              /\ m[j].book_id = m[i].book_id
                              /\ variant_of(m[j]) = v

Range(seq) == {seq[i] : i \in 1..Len(seq)}

\* The keys of user_to_review_batch_dict in insertion order.
RECURSIVE partition_keys(_, _)
partition_keys(msgs, seen) ==
    IF msgs = <<>> THEN <<>>
    ELSE IF Head(msgs).user_id \in seen THEN partition_keys(Tail(msgs), seen)
    ELSE <<Head(msgs).user_id>> \o partition_keys(Tail(msgs), seen \cup {Head(msgs).user_id})

\* user_to_review_batch_dict[user_id]: that owner's reviews in message order.
partition_of(msgs, u) == SelectSeq(msgs, LAMBDA r : r.user_id = u)

\* The (user_id, book_id) pairs of a list of reviews, which is what the
\* downstream keeps of a stored batch.
review_pairs(user_reviews) ==
    [i \in 1..Len(user_reviews) |->
        [user_id |-> user_reviews[i].user_id, book_id |-> user_reviews[i].book_id]]

\* list.remove(x): the list without its first element equal to x.
RECURSIVE list_remove(_, _)
list_remove(seq, x) ==
    IF seq = <<>> THEN <<>>
    ELSE IF Head(seq) = x THEN Tail(seq)
    ELSE <<Head(seq)>> \o list_remove(Tail(seq), x)

\* The loop of _remove_reviews_already_indexed: it walks candidates by
\* position while removing from it, so after a removal the next position
\* holds the element that came two places later.
RECURSIVE remove_reviews_loop(_, _, _)
remove_reviews_loop(candidates, i, books_read_by_user_set) ==
    IF i > Len(candidates) THEN candidates
    ELSE IF candidates[i].book_id \in books_read_by_user_set
    THEN remove_reviews_loop(list_remove(candidates, candidates[i]), i + 1, books_read_by_user_set)
    ELSE remove_reviews_loop(candidates, i + 1, books_read_by_user_set)

\* _remove_reviews_already_indexed, given the result of get_books_read_by_user.
remove_reviews_already_indexed(user_reviews, books_read_by_user) ==
    remove_reviews_loop(user_reviews, 1, books_read_by_user)

\* create_batch_user_reviews with every error answer swallowed.
create_batch_user_reviews_no_raise(a) ==
    [exc |-> "none", is_none |-> FALSE, indexed |-> IF a.exc = "none" /\ ~is_error(a) THEN a.indexed ELSE 0]

\* create_batch_user_reviews: the exception it raises and the indexed count it
\* returns; a 4xx other than 429 falls through every branch and returns None.
create_batch_user_reviews(a) ==
    IF a.exc # "none" THEN [exc |-> "BookRecommenderApiServerException", is_none |-> FALSE, indexed |-> 0]
    ELSE IF ~is_error(a) THEN [exc |-> "none", is_none |-> FALSE, indexed |-> a.indexed]
    ELSE IF a.status = 429
    THEN [exc |-> "BookRecommenderApiServerException", is_none |-> FALSE, indexed |-> 0]
    ELSE IF is_server_error(a)
    THEN [exc |-> "BookRecommenderApiServerException", is_none |-> FALSE, indexed |-> 0]
    ELSE [exc |-> "none", is_none |-> TRUE, indexed |-> 0]

\* get_already_indexed_books: the ids of the response on 2xx; None on 429 and
\* on any other 4xx; BookRecommenderApiServerException on 5xx and transport errors.
get_already_indexed_books(a) ==
    IF a.exc # "none" THEN [exc |-> "BookRecommenderApiServerException", is_none |-> FALSE, book_ids |-> {}]
    ELSE IF ~is_error(a) THEN [exc |-> "none", is_none |-> FALSE, book_ids |-> a.book_ids]
    ELSE IF a.status = 429 THEN [exc |-> "none", is_none |-> TRUE, book_ids |-> {}]
    ELSE IF is_server_error(a)
    THEN [exc |-> "BookRecommenderApiServerException", is_none |-> FALSE, book_ids |-> {}]
    ELSE [exc |-> "none", is_none |-> TRUE, book_ids |-> {}]

\* set(books_in_api) on what the v1 client returns.  None is not iterable.
\* An ApiBookExistsBatchResponse iterates as its (field name, value) pairs,
\* and the pair ("book_ids", [...]) holds a list, which cannot be hashed.
\* Either way set() raises TypeError.
set_of_exists_response(books_in_api) == [exc |-> "TypeError", keys |-> {}]

\* _remove_books_already_indexed: the candidates set is built, the existence
\* request is awaited, and set(books_in_api) is taken off the candidates;
\* the result is the list of what is left.
remove_books_already_indexed(books_in_reviews, a) ==
    LET candidates == py_set(books_in_reviews)
        books_in_api == get_already_indexed_books(a)
        books_in_api_set == set_of_exists_response(books_in_api)
    IN IF books_in_api.exc # "none" THEN [exc |-> books_in_api.exc, books |-> <<>>]
       ELSE IF books_in_api_set.exc # "none" THEN [exc |-> books_in_api_set.exc, books |-> <<>>]
       ELSE [exc |-> "none", books |-> set_keys(set_difference(candidates, books_in_api_set.keys))]

Duplicate == [name |-> "duplicate", book_id |-> 0]
TaskName(b) == [name |-> "book", book_id |-> b]

\* Failures of create_task other than AlreadyExists.
QueueFaults == {"ServiceUnavailable", "DeadlineExceeded"}

\* What the queue does with the create_task of each book: "none" when it
\* answers, else the failure it raises.
QueueAnswers == [Books -> QueueFaults \cup {"none"}]
NoQueueFault == [b \in Books |-> "none"]

\* enqueue_book without the AlreadyExists answer of the queue.
enqueue_book_always_created(q, b, fault) ==
    IF fault # "none" THEN [exc |-> fault, task_name |-> Duplicate, queue |-> q]
    ELSE [exc |-> "none", task_name |-> TaskName(b), queue |-> q \cup {b}]

\* enqueue_book: create_task under the name book-{id}; the queue refuses a
\* name that is taken (AlreadyExists), which is answered with "duplicate";
\* any other failure of create_task leaves the method as an exception.
enqueue_book(q, b, fault) ==
    IF fault # "none" THEN [exc |-> fault, task_name |-> Duplicate, queue |-> q]
    ELSE IF b \in q THEN [exc |-> "none", task_name |-> Duplicate, queue |-> q]
    ELSE [exc |-> "none", task_name |-> TaskName(b), queue |-> q \cup {b}]

\* for book_id in books_to_scrape: enqueue_book(book_id) and the task name
\* appended; books_to_scrape is given in the order the loop meets its
\* elements, called holds the books enqueue_book was called with.  An
\* exception of enqueue_book ends the loop.
RECURSIVE enqueue_loop(_, _, _, _, _)
enqueue_loop(books_to_scrape, q, tasks, called, faults) ==
    IF books_to_scrape = <<>>
    THEN [exc |-> "none", queue |-> q, tasks |-> tasks, called |-> called]
    ELSE LET b == Head(books_to_scrape)
             r == enqueue_book(q, b, faults[b])
         IN IF r.exc # "none"
            THEN [exc |-> r.exc, queue |-> r.queue, tasks |-> tasks, called |-> called \cup {b}]
            ELSE enqueue_loop(Tail(books_to_scrape), r.queue, Append(tasks, r.task_name),
                              called \cup {b}, faults)

\* Downstream answers. The API answers from what it stores, or with a fault.
NoAnswer == [status |-> 0, exc |-> "unused", book_ids |-> {}, indexed |-> 0]
Fault(st) == [status |-> st, exc |-> "none", book_ids |-> {}, indexed |-> 0]
Faults5xx == {Fault(500), [status |-> 0, exc |-> "ReadTimeout", book_ids |-> {}, indexed |-> 0]}

BooksStoredFor(u) == {b \in Books : [user_id |-> u, book_id |-> b] \in apiReviews}

\* GET /users/{id}/book-ids
ReadAnswersFor(u) ==
    {[status |-> 200, exc |-> "none", book_ids |-> BooksStoredFor(u), indexed |-> 0]}
    \cup (IF BooksStoredFor(u) = {} THEN {Fault(404)} ELSE {})
    \cup Faults5xx

\* POST /users/batch/create with n reviews: stored, with the number the
\* downstream reports as indexed (all of them or one less), or refused.
WriteAnswersFor(n) ==
    {[status |-> 200, exc |-> "none", book_ids |-> {}, indexed |-> k] :
        k \in {x \in {n - 1, n} : x >= 0}}
    \cup {Fault(422), Fault(429)}
    \cup Faults5xx

\* POST /books/batch/exists
ExistsAnswersFor(books) ==
    {[status |-> 200, exc |-> "none", book_ids |-> books \cap apiBooks, indexed |-> 0],
     Fault(404), Fault(429)}
    \cup Faults5xx

\* books_in_reviews = [review.book_id for review in user_reviews]
books_in_reviews(user_reviews, remaining) ==
    [i \in 1..Len(user_reviews) |-> user_reviews[i].book_id]

\* The elements of seq that also occur earlier in it.
Repeated(seq) == {seq[k] : k \in {i \in 1..Len(seq) : \E j \in 1..(i - 1) : seq[j] = seq[i]}}

\* service_response.indexed += create_response.indexed
owner_indexed(create_response, batch_user_reviews) == create_response.indexed

\* The guard of the write with the branch taken for every owner.
write_needed_always(remaining_reviews_to_index) == TRUE

\* if len(remaining_reviews_to_index) > 0
write_needed(remaining_reviews_to_index) == Len(remaining_reviews_to_index) > 0

\* The calls of one pass of the owner loop, in the order the code makes them.
FilterCallOf(u, user_reviews, books_read) ==
    [op |-> "filter", user_id |-> u, reviews |-> user_reviews, books |-> books_read, ok |-> TRUE]
WriteCallOf(u, batch_user_reviews, stored) ==
    [op |-> "write", user_id |-> u, reviews |-> batch_user_reviews, books |-> {}, ok |-> stored]
ExistsCallOf(u, books, answered) ==
    [op |-> "exists", user_id |-> u, reviews |-> <<>>, books |-> books, ok |-> answered]

\* The enqueue_book calls of the loop over books_to_scrape; ok tells a task
\* name from "duplicate".
RECURSIVE EnqueueCallsOf(_, _, _, _)
EnqueueCallsOf(u, books_to_scrape, q, faults) ==
    IF books_to_scrape = <<>> THEN <<>>
    ELSE LET b == Head(books_to_scrape)
             r == enqueue_book(q, b, faults[b])
         IN <<[op |-> "enqueue", user_id |-> u, reviews |-> <<>>, books |-> {b},
               ok |-> r.task_name # Duplicate]>>
            \o (IF r.exc # "none" THEN <<>>
                ELSE EnqueueCallsOf(u, Tail(books_to_scrape), r.queue, faults))

\* The owner cache after a batch-create request that also enters the books
\* of the written reviews under their owner.
cache_after_create_batch_write_through(cache, user_review_batch) ==
    IF user_review_batch = <<>> THEN cache
    ELSE LET u == user_review_batch[1].user_id
             known == IF cache_contains(cache, u) THEN cache_getitem(cache, u).value ELSE {}
         IN cache_setitem(cache, u,
                known \cup {user_review_batch[i].book_id : i \in 1..Len(user_review_batch)})

\* The owner cache after create_batch_user_reviews(user_review_batch): the
\* method makes no use of user_read_books_cache.
cache_after_create_batch(cache, user_review_batch) == cache

\* The end of one pass of the owner loop, given what its enqueue loop did: an
\* exception of enqueue_book ends the pass and the call, with the tasks
\* created before it in the queue.
owner_enqueued(enq, cache, reviews, twice, indexed, wrote) ==
    [exc |-> enq.exc, cache |-> cache, apiReviews |-> reviews, apiReviewsTwice |-> twice,
     queue |-> enq.queue,
     indexed |-> IF enq.exc = "none" THEN indexed ELSE 0,
     tasks |-> IF enq.exc = "none" THEN enq.tasks ELSE <<>>,
     wrote |-> wrote, called |-> enq.called]

\* One pass of the owner loop of process_pubsub_batch_message for owner u,
\* given the downstream's answers to its three requests and the queue's
\* answers to create_task.
process_owner(u, user_reviews, ra, wa, ea, faults) ==
    LET read == get_books_read_by_user(user_read_books_cache, u, ra)
        remaining == remove_reviews_already_indexed(user_reviews, read.result)
        created == create_batch_user_reviews(wa)
        written == write_needed(remaining) /\ wa.exc = "none" /\ ~is_error(wa)
        pairs == review_pairs(remaining)
        reviews1 == IF written THEN apiReviews \cup Range(pairs) ELSE apiReviews
        twice1 == IF written
                  THEN apiReviewsTwice \cup (Range(pairs) \cap apiReviews) \cup Repeated(pairs)
                  ELSE apiReviewsTwice
        cache1 == IF written THEN cache_after_create_batch(read.cache, remaining) ELSE read.cache
        scrape == remove_books_already_indexed(books_in_reviews(user_reviews, remaining), ea)
        raised(e, c, r, t, w) == [exc |-> e, cache |-> c, apiReviews |-> r, apiReviewsTwice |-> t,
                                  queue |-> queue, indexed |-> 0, tasks |-> <<>>, wrote |-> w,
                                  called |-> {}]
    IN IF read.exc # "none"
       THEN raised(read.exc, read.cache, apiReviews, apiReviewsTwice, FALSE)
       ELSE IF write_needed(remaining) /\ created.exc # "none"
       THEN raised(created.exc, read.cache, apiReviews, apiReviewsTwice, TRUE)
       ELSE IF write_needed(remaining) /\ created.is_none
       THEN raised("AttributeError", read.cache, apiReviews, apiReviewsTwice, TRUE)
       ELSE IF scrape.exc # "none"
       THEN raised(scrape.exc, cache1, reviews1, twice1, write_needed(remaining))
       ELSE owner_enqueued(enqueue_loop(scrape.books, queue, <<>>, {}, faults),
                           cache1, reviews1, twice1,
                           IF write_needed(remaining) THEN owner_indexed(created, remaining) ELSE 0,
                           write_needed(remaining))

NoResponse == [exc |-> "none", indexed |-> 0, tasks |-> <<>>]

\* The HTTP response of the batch route for a service outcome: the service
\* response with 200, or 500 when the service raised.
user_reviews_handle(response) ==
    IF response.exc = "none"
    THEN [status |-> 200, indexed |-> response.indexed, tasks |-> response.tasks]
    ELSE [status |-> 500, indexed |-> 0, tasks |-> <<>>]

NoPrior == [aborted |-> FALSE, answered |-> FALSE, written |-> {}, enqueued |-> {}]

\* The number of service calls a behaviour makes.
MaxCalls == 2

ReviewsInit ==
    /\ rv_pc = "idle"
    /\ rv_batch = <<>>
    /\ rv_redelivered = FALSE
    /\ rv_k = 0
    /\ rv_response = NoResponse
    /\ rv_calls = 0
    /\ rv_sent = 0
    /\ rv_write_4xx = FALSE
    /\ rv_fault = FALSE
    /\ rv_after_fault = FALSE
    /\ handles_again = {}
    /\ rv_enqueued = {}
    /\ rv_reported = 0
    /\ rv_exists_5xx = FALSE
    /\ rv_log = <<>>
    /\ rv_prior = NoPrior
    /\ apiReviews = {}
    /\ apiReviewsTwice = {}
    /\ queue = {}

\* process_pubsub_batch_message(pubsub_message) is entered: the response
\* object is created and the message partitioned by owner.
RvStart(batch, again) ==
    /\ rv_pc = "idle"
    /\ rv_calls < MaxCalls
    /\ rv_calls' = rv_calls + 1
    /\ rv_sent' = 0
    /\ rv_write_4xx' = FALSE
    /\ rv_fault' = FALSE
    /\ rv_after_fault' = FALSE
    /\ rv_enqueued' = {}
    /\ rv_reported' = 0
    /\ rv_exists_5xx' = FALSE
    /\ rv_log' = <<>>
    /\ rv_batch' = batch
    /\ rv_redelivered' = again
    /\ rv_response' = NoResponse
    /\ IF batch = <<>>
       THEN rv_pc' = "idle" /\ rv_k' = 0
       ELSE rv_pc' = "running" /\ rv_k' = 1
    /\ UNCHANGED <<handles_again, user_read_books_cache, apiVars>>

\* The batches the service is called with.
ReviewBatches == {m : m \in {x \in SeqsUpTo(Reviews, MaxBatch) : InOrderOfAppearance(x)}}

\* The service is called with a batch.  Before the first call nothing tells
\* one owner from another, so the first batch starts with owner 1.
RvCall ==
    /\ rv_pc = "idle"
    /\ \E batch \in {m \in ReviewBatches :
                        (rv_calls = 0 /\ m # <<>>) => m[1].user_id = 1} :
          RvStart(batch, FALSE)
    /\ rv_prior' = NoPrior
    /\ OnlyReviews

\* The call has ended with an exception, the route answered 500 and the
\* batch is delivered again.
RvCallAgain ==
    /\ rv_batch # <<>>
    /\ rv_response.exc # "none"
    /\ rv_prior' = [aborted |-> rv_response.exc = "BookRecommenderApiServerException",
                    answered |-> ~rv_fault /\ \A i \in 1..Len(rv_log) : rv_log[i].ok,
                    written |-> UNION {Range(review_pairs(rv_log[i].reviews)) :
                                         i \in {w \in 1..Len(rv_log) :
                                                    rv_log[w].op = "write" /\ rv_log[w].ok}},
                    enqueued |-> UNION {rv_log[i].books :
                                          i \in {k \in 1..Len(rv_log) : rv_log[k].op = "enqueue"}}]
    /\ RvStart(rv_batch, TRUE)
    /\ OnlyReviews

\* The owner loop handles its next owner; an exception ends the call.
RvOwner ==
    /\ rv_pc = "running"
    /\ LET keys == partition_keys(rv_batch, {})
           u == keys[rv_k]
           user_reviews == partition_of(rv_batch, u)
       IN \E ra \in ReadAnswersFor(u) :
          \E read \in {get_books_read_by_user(user_read_books_cache, u, ra)} :
          \E remaining \in {remove_reviews_already_indexed(user_reviews, read.result)} :
          LET write_made == read.exc = "none" /\ write_needed(remaining)
          IN \E wa \in (IF write_made THEN WriteAnswersFor(Len(remaining)) ELSE {NoAnswer}) :
             LET created == create_batch_user_reviews(wa)
                 exists_made == /\ read.exc = "none"
                                /\ write_made => (created.exc = "none" /\ ~created.is_none)
             IN \E ea \in (IF exists_made
                            THEN ExistsAnswersFor(Range(books_in_reviews(user_reviews, remaining)))
                            ELSE {NoAnswer}) :
                LET scrape == remove_books_already_indexed(
                              books_in_reviews(user_reviews, remaining), ea)
                    loop_made == exists_made /\ scrape.exc = "none"
                IN \E faults \in (IF loop_made THEN QueueAnswers ELSE {NoQueueFault}) :
                \E out \in {process_owner(u, user_reviews, ra, wa, ea, faults)} :
                LET named == {t.book_id : t \in {x \in Range(out.tasks) : x.name = "book"}}
                    read_fault == read.requested /\ ra \in Faults5xx
                    write_fault == write_made /\ wa \in (Faults5xx \cup {Fault(429)})
                IN /\ user_read_books_cache' = out.cache
                   /\ rv_sent' = rv_sent + (IF write_made /\ wa.exc = "none" /\ ~is_error(wa)
                                            THEN Len(remaining) ELSE 0)
                   /\ rv_write_4xx' = (rv_write_4xx \/ (write_made /\ wa = Fault(422)))
                   /\ rv_fault' = (rv_fault \/ read_fault \/ write_fault)
                   /\ rv_after_fault' =
                        (\/ rv_after_fault
                         \/ (rv_fault \/ read_fault) /\ (out.wrote \/ out.tasks # <<>>)
                         \/ write_fault /\ out.tasks # <<>>)
                   /\ apiReviews' = out.apiReviews
                   /\ apiReviewsTwice' = out.apiReviewsTwice
                   /\ queue' = out.queue
                   /\ handles_again' = handles_again \cup (named \cap queue)
                   /\ rv_enqueued' = rv_enqueued \cup out.called
                   /\ rv_reported' = rv_reported + (IF write_made /\ wa.exc = "none" /\ ~is_error(wa)
                                                    THEN wa.indexed ELSE 0)
                   /\ rv_exists_5xx' = (rv_exists_5xx \/ (exists_made /\ ea \in Faults5xx))
                   /\ rv_log' = rv_log
                        \o (IF read.exc = "none"
                            THEN <<FilterCallOf(u, user_reviews, read.result)>> ELSE <<>>)
                        \o (IF write_made
                            THEN <<WriteCallOf(u, remaining, wa.exc = "none" /\ ~is_error(wa))>>
                            ELSE <<>>)
                        \o (IF exists_made
                            THEN <<ExistsCallOf(u, Range(books_in_reviews(user_reviews, remaining)),
                                                ea.exc = "none" /\ ~is_error(ea))>>
                            ELSE <<>>)
                        \o (IF loop_made
                            THEN EnqueueCallsOf(u, scrape.books, queue, faults)
                            ELSE <<>>)
                   /\ IF out.exc # "none"
                      THEN /\ rv_response' = [exc |-> out.exc, indexed |-> 0, tasks |-> <<>>]
                           /\ rv_pc' = "idle"
                           /\ rv_k' = 0
                      ELSE /\ rv_response' = [rv_response EXCEPT !.indexed = @ + out.indexed,
                                                                  !.tasks = @ \o out.tasks]
                           /\ rv_pc' = IF rv_k = Len(keys) THEN "idle" ELSE "running"
                           /\ rv_k' = IF rv_k = Len(keys) THEN 0 ELSE rv_k + 1
    /\ UNCHANGED <<rv_batch, rv_redelivered, rv_calls, rv_prior, apiBooks>>
    /\ OnlyReviews

\* Another request handler of the service enqueues the scrape job of a book.
JobEnqueued ==
    /\ \E b \in Books \ queue : queue' = enqueue_book(queue, b, "none").queue
    /\ UNCHANGED <<apiBooks, apiReviews, apiReviewsTwice>>
    /\ OnlyApi

\* A queued scrape job has run and its book has been stored downstream.
BookIndexed ==
    /\ \E b \in queue \ apiBooks : apiBooks' = apiBooks \cup {b}
    /\ UNCHANGED <<apiReviews, apiReviewsTwice, queue>>
    /\ OnlyApi

\* ---------------------------------------------------------- review filter
OnlyFilter == UNCHANGED <<bookVars, cc_last, fetched, cc_runs, popVars, reviewVars, apiVars, taskVars, enqVars, profVars, putVars, partVars, auditVars, lookupVars>>

FilterInit ==
    /\ flt_pc = "idle"
    /\ flt_user_reviews = <<>>
    /\ flt_books_read = {}
    /\ flt_result = <<>>
    /\ flt_calls = 0

\* The longest group of reviews the filter is called with.
MaxGroup == 4

\* The calls of the filter that are followed.
MaxFilterCalls == 2

\* The reviews of one owner, as a group of user_to_review_batch_dict.
OwnerGroups ==
    {g : g \in {x \in SeqsUpTo(Reviews, MaxGroup) :
                    /\ \A i, j \in 1..Len(x) : x[i].user_id = x[j].user_id
                    /\ InOrderOfAppearance(x)}}

\* _remove_reviews_already_indexed is called for an owner and the owner's
\* group: it copies the group and asks get_books_read_by_user, which answers
\* from user_read_books_cache or requests the list from the downstream and
\* stores it, or raises.
FilterCall ==
    /\ flt_pc = "idle"
    /\ flt_calls < MaxFilterCalls
    /\ \E u \in Users :
       \E g \in {h \in OwnerGroups : \A i \in 1..Len(h) : h[i].user_id = u} :
       \E ra \in (IF cache_contains(user_read_books_cache, u)
                  THEN {NoLookupAnswer} ELSE BookIdsAnswers) :
       \E read \in {get_books_read_by_user(user_read_books_cache, u, ra)} :
          /\ user_read_books_cache' = read.cache
          /\ flt_user_reviews' = g
          /\ flt_books_read' = read.result
          /\ flt_pc' = IF read.exc = "none" THEN "called" ELSE "raised"
    /\ flt_result' = <<>>
    /\ flt_calls' = flt_calls + 1
    /\ OnlyFilter

\* The loop over the copy has run and the copy is returned.
FilterReturn ==
    /\ flt_pc = "called"
    /\ flt_result' = remove_reviews_already_indexed(flt_user_reviews, flt_books_read)
    /\ flt_pc' = "returned"
    /\ UNCHANGED <<flt_user_reviews, flt_books_read, flt_calls, user_read_books_cache>>
    /\ OnlyFilter

\* The caller has taken the list, or the exception.
FilterDone ==
    /\ flt_pc \in {"returned", "raised"}
    /\ flt_pc' = "idle"
    /\ flt_user_reviews' = <<>>
    /\ flt_books_read' = {}
    /\ flt_result' = <<>>
    /\ UNCHANGED <<flt_calls, user_read_books_cache>>
    /\ OnlyFilter

\* ------------------------------------------------------------ task client
OnlyTasks == UNCHANGED <<bookVars, cacheVars, popVars, reviewVars, apiVars, filterVars, enqVars, profVars, putVars, partVars, auditVars, lookupVars>>


NoName == [prefix |-> "none", id |-> 0]

\* task_name = f"book-{book_id}" and f"user-{user_profile_id}"
book_task_name(book_id) == [prefix |-> "book", id |-> book_id]
user_task_name(user_profile_id) == [prefix |-> "user", id |-> user_profile_id]

\* CloudTasksClient.create_task: the queue refuses a task whose name it holds.
create_task(tasks, task, fault) ==
    IF fault # "none" THEN [exc |-> fault, tasks |-> tasks]
    ELSE IF \E t \in tasks : t.name = task.name THEN [exc |-> "AlreadyExists", tasks |-> tasks]
    ELSE [exc |-> "none", tasks |-> tasks \cup {task}]

\* The try/except around create_task with every exception answered "duplicate".
enqueue_result_catch_all(created, name) ==
    IF created.exc = "none" THEN [kind |-> "name", name |-> name, exc |-> "none"]
    ELSE [kind |-> "duplicate", name |-> NoName, exc |-> "none"]

\* The try/except around create_task: response.name, "duplicate" on
\* AlreadyExists, any other exception propagates.
enqueue_result(created, name) ==
    IF created.exc = "none" THEN [kind |-> "name", name |-> name, exc |-> "none"]
    ELSE IF created.exc = "AlreadyExists" THEN [kind |-> "duplicate", name |-> NoName, exc |-> "none"]
    ELSE [kind |-> "raised", name |-> NoName, exc |-> created.exc]

\* enqueue_book with the position of the call in the task name.
TaskClient_enqueue_book_numbered(tasks, book_id, fault) ==
    LET name == [prefix |-> "book", id |-> book_id + Cardinality(tasks) * (NumBooks + NumUsers)]
        created == create_task(tasks, [name |-> name, spider |-> "book", arg |-> book_id], fault)
    IN [result |-> enqueue_result(created, name), tasks |-> created.tasks]

\* TaskClient.enqueue_book against the queue's tasks.
TaskClient_enqueue_book(tasks, book_id, fault) ==
    LET name == book_task_name(book_id)
        created == create_task(tasks, [name |-> name, spider |-> "book", arg |-> book_id], fault)
    IN [result |-> enqueue_result(created, name), tasks |-> created.tasks]

\* TaskClient.enqueue_user_scrape against the queue's tasks.
TaskClient_enqueue_user_scrape(tasks, user_profile_id, fault) ==
    LET name == user_task_name(user_profile_id)
        created == create_task(tasks, [name |-> name, spider |-> "user_reviews",
                                       arg |-> user_profile_id], fault)
    IN [result |-> enqueue_result(created, name), tasks |-> created.tasks]

TaskInit ==
    /\ tq_tasks = {}
    /\ tq_called = {}
    /\ tq_last = [spider |-> "none", arg |-> 0, fault |-> "none", first |-> FALSE,
                  unchanged |-> TRUE, result |-> [kind |-> "none", name |-> NoName, exc |-> "none"]]

\* What an enqueue call leaves behind.
TqRecord(spider, arg, fault, r) ==
    /\ tq_tasks' = r.tasks
    /\ tq_called' = IF fault = "none" THEN tq_called \cup {[spider |-> spider, arg |-> arg]}
                    ELSE tq_called
    /\ tq_last' = [spider |-> spider, arg |-> arg, fault |-> fault,
                   first |-> [spider |-> spider, arg |-> arg] \notin tq_called,
                   unchanged |-> r.tasks = tq_tasks, result |-> r.result]

TqEnqueueBook ==
    /\ \E b \in Books : \E fault \in QueueFaults \cup {"none"} :
          TqRecord("book", b, fault, TaskClient_enqueue_book(tq_tasks, b, fault))
    /\ OnlyTasks

TqEnqueueUserScrape ==
    /\ \E u \in Users : \E fault \in QueueFaults \cup {"none"} :
          TqRecord("user_reviews", u, fault, TaskClient_enqueue_user_scrape(tq_tasks, u, fault))
    /\ OnlyTasks

\* ---------------------------------------------------- book task enqueuer
OnlyEnqueuer == UNCHANGED <<bookVars, cacheVars, popVars, reviewVars, filterVars, taskVars, profVars, putVars, partVars, auditVars, lookupVars>>

\* user_reviews >= BOOK_POPULARITY_THRESHOLD
above_indexing_threshold(user_reviews) == user_reviews >= BOOK_POPULARITY_THRESHOLD

\* The candidates taken from every key of book_info that passes the threshold.
get_candidates_of_any_key(book_ids, book_info) ==
    SelectSeq(book_info.keys, LAMBDA book_id : above_indexing_threshold(book_info.map[book_id]))

\* _get_candidates_above_indexing_threshold, on the popularity it was given:
\* the keys of book_info that pass the threshold and are among book_ids, in
\* the order of book_info.items().
get_candidates_above_indexing_threshold(book_ids, book_info) ==
    SelectSeq(book_info.keys,
              LAMBDA book_id : /\ above_indexing_threshold(book_info.map[book_id])
                               /\ book_id \in Range(book_ids))

\* The rest of enqueue_books_if_necessary with the candidates enqueued before
\* the existence answer is looked at.
enqueue_candidates_before_check(candidates, a, q, faults) ==
    IF Len(candidates) = 0
    THEN [exc |-> "none", tasks |-> <<>>, queue |-> q, enqueued |-> {}]
    ELSE LET already_indexed == get_already_indexed_books(a)
             done == enqueue_loop(set_keys(py_set(candidates)), q, <<>>, {}, faults)
         IN IF done.exc # "none"
            THEN [exc |-> done.exc, tasks |-> <<>>, queue |-> done.queue,
                  enqueued |-> done.called]
            ELSE IF already_indexed.exc # "none"
            THEN [exc |-> already_indexed.exc, tasks |-> <<>>, queue |-> done.queue,
                  enqueued |-> done.called]
            ELSE IF already_indexed.is_none
            THEN [exc |-> "AttributeError", tasks |-> <<>>, queue |-> done.queue,
                  enqueued |-> done.called]
            ELSE [exc |-> "none", tasks |-> done.tasks, queue |-> done.queue,
                  enqueued |-> done.called]

\* The rest of enqueue_books_if_necessary once the candidates are known: no
\* request without candidates; otherwise the existence answer a is read, its
\* book_ids are taken off the candidates and the others are enqueued.
\* already_indexed.book_ids on None raises AttributeError, and an exception
\* of enqueue_book leaves the method with the earlier tasks in the queue.
enqueue_candidates(candidates, a, q, faults) ==
    IF Len(candidates) = 0
    THEN [exc |-> "none", tasks |-> <<>>, queue |-> q, enqueued |-> {}]
    ELSE LET already_indexed == get_already_indexed_books(a) IN
         IF already_indexed.exc # "none"
         THEN [exc |-> already_indexed.exc, tasks |-> <<>>, queue |-> q, enqueued |-> {}]
         ELSE IF already_indexed.is_none
         THEN [exc |-> "AttributeError", tasks |-> <<>>, queue |-> q, enqueued |-> {}]
         ELSE LET books_we_should_index ==
                      set_keys(set_difference(py_set(candidates), already_indexed.book_ids))
                  done == enqueue_loop(books_we_should_index, q, <<>>, {}, faults)
              IN IF done.exc # "none"
                 THEN [exc |-> done.exc, tasks |-> <<>>, queue |-> done.queue,
                       enqueued |-> done.called]
                 ELSE [exc |-> "none", tasks |-> done.tasks, queue |-> done.queue,
                       enqueued |-> done.called]

NoEnqueuerResponse == [exc |-> "pending", tasks |-> <<>>]

EnqueuerInit ==
    /\ enq_pc = "idle"
    /\ enq_book_ids = <<>>
    /\ enq_book_info = EmptyDict
    /\ enq_exists = NoAnswer
    /\ enq_present = {}
    /\ enq_enqueued = {}
    /\ enq_response = NoEnqueuerResponse

\* The call from the existence request to its return or its exception.
EnqFinish ==
    /\ enq_pc = "candidates"
    /\ LET candidates == get_candidates_above_indexing_threshold(enq_book_ids, enq_book_info) IN
       \E a \in (IF Len(candidates) = 0 THEN {NoAnswer}
                ELSE ExistsAnswersFor(Range(candidates))) :
       \E faults \in QueueAnswers :
          LET out == enqueue_candidates(candidates, a, queue, faults) IN
          /\ enq_exists' = a
          /\ enq_present' = (IF a.exc = "none" /\ ~is_error(a) THEN a.book_ids ELSE {})
          /\ enq_enqueued' = out.enqueued
          /\ enq_response' = [exc |-> out.exc, tasks |-> out.tasks]
          /\ queue' = out.queue
    /\ enq_pc' = "returned"
    /\ UNCHANGED <<enq_book_ids, enq_book_info>>
    /\ UNCHANGED <<apiBooks, apiReviews, apiReviewsTwice>>
    /\ OnlyEnqueuer

\* The caller has the response; the service is ready for its next call.
EnqReturn ==
    /\ enq_pc = "returned"
    /\ enq_pc' = "idle"
    /\ enq_book_ids' = <<>>
    /\ enq_book_info' = EmptyDict
    /\ enq_exists' = NoAnswer
    /\ enq_present' = {}
    /\ enq_enqueued' = {}
    /\ enq_response' = NoEnqueuerResponse
    /\ UNCHANGED apiVars
    /\ OnlyEnqueuer

\* -------------------------------------------------------- profile handler
OnlyProfiles == UNCHANGED <<bookVars, cacheVars, popVars, reviewVars, apiVars, filterVars, enqVars, putVars, partVars, auditVars, lookupVars>>

\* A raw item of a profile batch: its user id and whether PubSubProfileV1 accepts it.
RawProfiles == [user_id : Users, valid : BOOLEAN]

ProfileEnvelopes ==
    {[kind |-> "ok", items |-> s] : s \in SeqsUpTo(RawProfiles, MaxBatch)}
    \cup {[kind |-> k, items |-> <<>>] : k \in MalformedKinds}

ProfileLoopStart == [tasks |-> <<>>, successful_messages |-> <<>>, queue |-> {}, exit |-> "end"]

\* The for loop of the profile handler: an item PubSubProfileV1 rejects is
\* skipped; every other item is enqueued, its task name and the raw item are
\* appended.  An exception of enqueue_user_scrape leaves the loop.
RECURSIVE ProfileLoop(_, _, _, _)
ProfileLoop(items, faults, i, acc) ==
    IF i > Len(items) THEN acc
    ELSE IF ~items[i].valid THEN ProfileLoop(items, faults, i + 1, acc)
    ELSE LET r == TaskClient_enqueue_user_scrape(acc.queue, items[i].user_id, faults[i]) IN
         IF r.result.kind = "raised"
         THEN [acc EXCEPT !.exit = r.result.exc, !.queue = r.tasks]
         ELSE ProfileLoop(items, faults, i + 1,
                  [acc EXCEPT !.tasks = Append(@, r.result),
                              !.successful_messages = Append(@, items[i]),
                              !.queue = r.tasks])

\* handle_pubsub_message of routes/pubsub_profiles.py, for one delivery.
\* profile_batch.items on None and an exception of the task client are caught
\* nowhere: the framework answers 500 and send_batch is not reached.
profiles_handle_pubsub_message(env, faults, q) ==
    LET profile_batch == unpack_envelope(env) IN
    IF profile_batch.is_none
    THEN [status |-> 500, tasks |-> <<>>, published |-> <<>>, queue |-> q]
    ELSE LET r == ProfileLoop(profile_batch.items, faults, 1,
                              [ProfileLoopStart EXCEPT !.queue = q]) IN
         IF r.exit # "end"
         THEN [status |-> 500, tasks |-> <<>>, published |-> <<>>, queue |-> r.queue]
         ELSE [status |-> 200, tasks |-> r.tasks, published |-> r.successful_messages,
               queue |-> r.queue]

ProfilesInit ==
    /\ pf_pc = "idle"
    /\ pf_envelope = NoEnvelope
    /\ pf_faults = <<>>
    /\ pf_response = [status |-> 0, tasks |-> <<>>]
    /\ pf_published = <<>>

\* The bus pushes a profile batch.
PfDeliver ==
    /\ pf_pc = "idle"
    /\ \E env \in ProfileEnvelopes : pf_envelope' = env
    /\ pf_pc' = "received"
    /\ pf_faults' = <<>>
    /\ pf_response' = [status |-> 0, tasks |-> <<>>]
    /\ pf_published' = <<>>
    /\ UNCHANGED taskVars
    /\ OnlyProfiles

\* The handler runs on the delivered envelope; what the queue does with each
\* create_task is drawn per item position.
PfHandle ==
    /\ pf_pc = "received"
    /\ \E faults \in [1..Len(pf_envelope.items) -> QueueFaults \cup {"none"}] :
          LET out == profiles_handle_pubsub_message(pf_envelope, faults, tq_tasks) IN
          /\ pf_faults' = faults
          /\ pf_response' = [status |-> out.status, tasks |-> out.tasks]
          /\ pf_published' = out.published
          /\ tq_tasks' = out.queue
    /\ pf_pc' = "idle"
    /\ UNCHANGED <<pf_envelope, tq_called, tq_last>>
    /\ OnlyProfiles

\* ------------------------------------------------ create_book, called directly
OnlyCreateBook == UNCHANGED <<bookVars, cacheVars, popVars, reviewVars, filterVars, enqVars, taskVars, profVars, partVars, auditVars, lookupVars>>

\* What can come back for PUT /books/{id}: responses of every status class
\* and the failures httpx raises as subclasses of httpx.HTTPError.
CreateBookAnswers ==
    {Http(st) : st \in {200, 201, 204, 302, 400, 404, 422, 429, 499, 500, 502, 503, 599}}
    \cup {Transport(e) : e \in {"ConnectError", "ConnectTimeout", "ReadTimeout",
                               "TooManyRedirects", "DecodingError"}}

CreateBookInit ==
    /\ cb_pc = "idle"
    /\ cb_book_id = 0
    /\ cb_answer = Http(0)
    /\ cb_outcome = "none"

\* create_book(book_dict) is called and sends its PUT.
CbCall ==
    /\ cb_pc = "idle"
    /\ \E b \in Books : cb_book_id' = b
    /\ cb_pc' = "sent"
    /\ UNCHANGED <<cb_answer, cb_outcome>>
    /\ UNCHANGED apiVars
    /\ OnlyCreateBook

\* The PUT is answered or fails; the call returns or raises.  The downstream
\* stores the book when it answers 2xx.
CbAnswer ==
    /\ cb_pc = "sent"
    /\ \E a \in CreateBookAnswers :
          /\ cb_answer' = a
          /\ cb_outcome' = create_book(a)
          /\ apiBooks' = IF a.exc = "none" /\ a.status >= 200 /\ a.status <= 299
                         THEN apiBooks \cup {cb_book_id} ELSE apiBooks
    /\ cb_pc' = "idle"
    /\ UNCHANGED cb_book_id
    /\ UNCHANGED <<apiReviews, apiReviewsTwice, queue>>
    /\ OnlyCreateBook

\* ------------------------------------- enqueuer over the popularity fan-out
\* enqueue_books_if_necessary(book_ids) is called and awaits
\* get_book_popularity, which creates one task per list element.
FoCall ==
    /\ enq_pc = "idle"
    /\ pop_pc \in {"idle", "returned"}
    /\ \E book_ids \in SeqsUpTo(Books, MaxBatch) :
          /\ enq_book_ids' = book_ids
          /\ pop_ids' = book_ids
          /\ pop_tasks' = [i \in 1..Len(book_ids) |-> NewTask]
    /\ enq_pc' = "popularity"
    /\ pop_pc' = "running"
    /\ pop_result' = EmptyDict
    /\ UNCHANGED <<enq_book_info, enq_exists, enq_present, enq_enqueued, enq_response>>
    /\ UNCHANGED <<bookVars, cacheVars, reviewVars, apiVars, filterVars, taskVars, profVars, putVars, partVars, auditVars, lookupVars>>

\* get_book_popularity has returned: the await ends and the service holds the
\* popularity response.
FoCandidates ==
    /\ enq_pc = "popularity"
    /\ pop_pc = "returned"
    /\ enq_book_info' = pop_result
    /\ enq_pc' = "candidates"
    /\ UNCHANGED <<enq_book_ids, enq_exists, enq_present, enq_enqueued, enq_response>>
    /\ UNCHANGED <<bookVars, cacheVars, popVars, reviewVars, apiVars, filterVars, taskVars,
                   profVars, putVars, partVars, auditVars, lookupVars>>

\* ------------------------------------------------------ partition by owner
OnlyPartition == UNCHANGED <<bookVars, cacheVars, popVars, reviewVars, apiVars, filterVars, taskVars, enqVars, profVars, putVars, auditVars, lookupVars>>

\* The length of the messages that are partitioned.
MaxMessage == 3

\* One pass of the partition loop with the review put in front of its
\* owner's list.
dict_append_in_front(d, user_review) ==
    IF \E i \in 1..Len(d) : d[i].user_id = user_review.user_id
    THEN [i \in 1..Len(d) |->
            IF d[i].user_id = user_review.user_id
            THEN [d[i] EXCEPT !.reviews = <<user_review>> \o @] ELSE d[i]]
    ELSE Append(d, [user_id |-> user_review.user_id, reviews |-> <<user_review>>])

\* One pass of the partition loop: a new key gets an empty list at the end of
\* the dict, and the review is appended to its owner's list.
dict_append(d, user_review) ==
    IF \E i \in 1..Len(d) : d[i].user_id = user_review.user_id
    THEN [i \in 1..Len(d) |->
            IF d[i].user_id = user_review.user_id
            THEN [d[i] EXCEPT !.reviews = Append(@, user_review)] ELSE d[i]]
    ELSE Append(d, [user_id |-> user_review.user_id, reviews |-> <<user_review>>])

\* for user_review in pubsub_message: ...
RECURSIVE partition_loop(_, _)
partition_loop(pubsub_message, d) ==
    IF pubsub_message = <<>> THEN d
    ELSE partition_loop(Tail(pubsub_message), dict_append(d, Head(pubsub_message)))

PartitionInit ==
    /\ pt_pc = "idle"
    /\ pt_message = <<>>
    /\ pt_dict = <<>>

\* The messages process_pubsub_batch_message is entered with.
ReviewMessages == {m : m \in {x \in SeqsUpTo(Reviews, MaxMessage) : InOrderOfAppearance(x)}}

\* process_pubsub_batch_message is entered with a message.
PtCall ==
    /\ pt_pc \in {"idle", "partitioned"}
    /\ \E m \in ReviewMessages : pt_message' = m
    /\ pt_dict' = <<>>
    /\ pt_pc' = "called"
    /\ OnlyPartition

\* The partition loop has run; the owner loop is about to start.
PtPartition ==
    /\ pt_pc = "called"
    /\ pt_dict' = partition_loop(pt_message, <<>>)
    /\ pt_pc' = "partitioned"
    /\ UNCHANGED pt_message
    /\ OnlyPartition

\* ------------------------------------------------------------ audit client
OnlyAudit == UNCHANGED <<bookVars, cacheVars, popVars, reviewVars, apiVars, filterVars, taskVars, enqVars, profVars, putVars, partVars, lookupVars>>

\* publish_future.result(timeout=60)
result_timeout == 60

\* The seconds the model lets a call wait, and the step of its clock.
MaxWait == 120
WaitStep == 30

\* The callback of a publish future, run by the future when it is done:
\* result(timeout=60) returns at once on a done future, with the message id
\* or by raising the publish error.  The except clause catches
\* futures.TimeoutError, which is raised for a future that is still pending
\* and also re-raised for a future that failed with a TimeoutError; any other
\* publish error leaves the callback as an exception.
callback(future) ==
    IF future = "pending" THEN "logged"
    ELSE IF future = "failed_timeout" THEN "logged"
    ELSE IF future = "failed" THEN "raised"
    ELSE "ok"

\* futures.wait(publish_futures, return_when=ALL_COMPLETED), no timeout given.
wait_over(publish_futures) ==
    \A i \in 1..Len(publish_futures) : publish_futures[i] # "pending"

AuditInit ==
    /\ au_pc = "idle"
    /\ au_messages = <<>>
    /\ au_futures = <<>>
    /\ au_waited = 0
    /\ au_called = {}
    /\ au_logged = {}
    /\ au_callback_raised = {}

\* send_batch(audit_item, messages) is called: publish_futures = [] and the
\* loop over the messages starts.  au_futures holds the futures publish has
\* returned in this call; the variables follow the latest call.
AuSendBatch ==
    /\ au_pc \in {"idle", "returned"}
    /\ \E messages \in SeqsUpTo(Books, MaxBatch) :
          /\ au_messages' = messages
          /\ au_pc' = IF messages = <<>> THEN "waiting" ELSE "publishing"
    /\ au_futures' = <<>>
    /\ au_waited' = 0
    /\ au_called' = {}
    /\ au_logged' = {}
    /\ au_callback_raised' = {}
    /\ OnlyAudit

\* publisher_client.publish(topic_path, data) for the next message of the
\* loop: a future that is not done.
AuPublish ==
    /\ au_pc = "publishing"
    /\ au_futures' = Append(au_futures, "pending")
    /\ au_pc' = "registering"
    /\ UNCHANGED <<au_messages, au_waited, au_called, au_logged, au_callback_raised>>
    /\ OnlyAudit

\* The futures that have been given their callback.
with_callback ==
    IF au_pc = "registering" THEN 1..(Len(au_futures) - 1) ELSE 1..Len(au_futures)

\* publish_future.add_done_callback(callback) and publish_futures.append: a
\* future that is done by now runs the callback at once, in the caller, and
\* logs an exception of it; then the loop goes to its next message or ends.
AuAddCallback ==
    /\ au_pc = "registering"
    /\ LET i == Len(au_futures)
           done == au_futures[i] # "pending"
       IN /\ au_called' = IF done THEN au_called \cup {i} ELSE au_called
          /\ au_logged' = IF done /\ callback(au_futures[i]) = "logged"
                           THEN au_logged \cup {i} ELSE au_logged
          /\ au_callback_raised' = IF done /\ callback(au_futures[i]) = "raised"
                                   THEN au_callback_raised \cup {i} ELSE au_callback_raised
    /\ au_pc' = IF Len(au_futures) = Len(au_messages) THEN "waiting" ELSE "publishing"
    /\ UNCHANGED <<au_messages, au_futures, au_waited>>
    /\ OnlyAudit

\* The publisher completes a future, with a message id, with an error or with
\* a TimeoutError, while send_batch is in its loop or in futures.wait: the
\* future is done and futures.wait is woken.  A callback it has been given
\* runs in the publisher's thread afterwards, as a step of its own.
AuComplete ==
    /\ au_pc \in {"publishing", "registering", "waiting"}
    /\ \E i \in 1..Len(au_futures) : \E outcome \in {"confirmed", "failed", "failed_timeout"} :
          /\ au_futures[i] = "pending"
          /\ au_futures' = [au_futures EXCEPT ![i] = outcome]
    /\ UNCHANGED <<au_pc, au_messages, au_waited, au_called, au_logged, au_callback_raised>>
    /\ OnlyAudit

\* A done future runs the callback it was given, while send_batch is in its
\* loop, in futures.wait or after it has returned; an exception of a
\* callback is logged by the future and goes no further.
AuCallback ==
    /\ \E i \in with_callback :
          /\ au_futures[i] # "pending"
          /\ i \notin au_called
          /\ au_called' = au_called \cup {i}
          /\ au_logged' = IF callback(au_futures[i]) = "logged"
                           THEN au_logged \cup {i} ELSE au_logged
          /\ au_callback_raised' = IF callback(au_futures[i]) = "raised"
                                   THEN au_callback_raised \cup {i} ELSE au_callback_raised
    /\ UNCHANGED <<au_pc, au_messages, au_futures, au_waited>>
    /\ OnlyAudit

\* Time passes while futures.wait blocks on a future that is not done.
AuWait ==
    /\ au_pc = "waiting"
    /\ ~wait_over(au_futures)
    /\ au_waited < MaxWait
    /\ au_waited' = au_waited + WaitStep
    /\ UNCHANGED <<au_pc, au_messages, au_futures, au_called, au_logged, au_callback_raised>>
    /\ OnlyAudit

\* futures.wait returns; send_batch logs the count and returns.
AuReturn ==
    /\ au_pc = "waiting"
    /\ wait_over(au_futures)
    /\ au_pc' = "returned"
    /\ UNCHANGED <<au_messages, au_futures, au_waited, au_called, au_logged, au_callback_raised>>
    /\ OnlyAudit

\* ------------------------------------------------ concurrent owner lookups
\* Calls of get_books_read_by_user for one owner that are in progress at the
\* same time, taken statement by statement: the membership test, the GET, the
\* assignment to the cache.
OnlyLookups == UNCHANGED <<bookVars, popVars, cc_last, fetched, cc_runs, reviewVars, apiVars, filterVars, taskVars, enqVars, profVars, putVars, partVars, auditVars>>

NumLookups == 2
Lookups == 1..NumLookups

LookupsInit ==
    /\ lk_pc = [i \in Lookups |-> "idle"]
    /\ lk_user = 0
    /\ lk_missing = FALSE
    /\ lk_answer = [i \in Lookups |-> NoLookupAnswer]
    /\ lk_result = [i \in Lookups |-> {}]
    /\ lk_exc = [i \in Lookups |-> "none"]

\* Batches that are processed at the same time reach the lookup of the same owner.
LkBegin ==
    /\ \A i \in Lookups : lk_pc[i] \in {"idle", "done"}
    /\ \E u \in Users :
          /\ lk_user' = u
          /\ lk_missing' = ~cache_contains(user_read_books_cache, u)
    /\ lk_pc' = [i \in Lookups |-> "check"]
    /\ lk_answer' = [i \in Lookups |-> NoLookupAnswer]
    /\ lk_result' = [i \in Lookups |-> {}]
    /\ lk_exc' = [i \in Lookups |-> "none"]
    /\ UNCHANGED user_read_books_cache
    /\ OnlyLookups

\* if user_id in self.user_read_books_cache: return self.user_read_books_cache[user_id]
LkCheck(i) ==
    /\ lk_pc[i] = "check"
    /\ IF cache_contains(user_read_books_cache, lk_user)
       THEN LET hit == cache_getitem(user_read_books_cache, lk_user) IN
            /\ lk_result' = [lk_result EXCEPT ![i] = hit.value]
            /\ user_read_books_cache' = hit.cache
            /\ lk_pc' = [lk_pc EXCEPT ![i] = "done"]
       ELSE /\ lk_pc' = [lk_pc EXCEPT ![i] = "fetch"]
            /\ UNCHANGED <<lk_result, user_read_books_cache>>
    /\ UNCHANGED <<lk_user, lk_missing, lk_answer, lk_exc>>
    /\ OnlyLookups

\* response = httpx.get(url) and the branch on its status.
LkFetch(i) ==
    /\ lk_pc[i] = "fetch"
    /\ \E answer \in BookIdsAnswers :
          /\ lk_answer' = [lk_answer EXCEPT ![i] = answer]
          /\ IF answer.exc # "none" \/ is_server_error(answer)
             THEN /\ lk_exc' = [lk_exc EXCEPT ![i] = "BookRecommenderApiServerException"]
                  /\ lk_pc' = [lk_pc EXCEPT ![i] = "done"]
             ELSE /\ lk_pc' = [lk_pc EXCEPT ![i] = "store"]
                  /\ UNCHANGED lk_exc
    /\ UNCHANGED <<lk_user, lk_missing, lk_result, user_read_books_cache>>
    /\ OnlyLookups

\* The set a lookup got from its answer: the ids of a 2xx, none for a 4xx.
FetchedIds(answer) == IF is_error(answer) THEN {} ELSE answer.book_ids

\* The assignment to the cache refused when the owner has an entry by now.
LkStore_refusing_second(i) ==
    /\ lk_pc[i] = "store"
    /\ IF cache_contains(user_read_books_cache, lk_user)
       THEN /\ lk_exc' = [lk_exc EXCEPT ![i] = "KeyError"]
            /\ UNCHANGED <<user_read_books_cache, lk_result>>
       ELSE /\ user_read_books_cache' =
                  cache_setitem(user_read_books_cache, lk_user, FetchedIds(lk_answer[i]))
            /\ lk_result' = [lk_result EXCEPT ![i] = FetchedIds(lk_answer[i])]
            /\ UNCHANGED lk_exc
    /\ lk_pc' = [lk_pc EXCEPT ![i] = "done"]
    /\ UNCHANGED <<lk_user, lk_missing, lk_answer>>
    /\ OnlyLookups

\* self.user_read_books_cache[user_id] = book_ids; return book_ids
LkStore(i) ==
    /\ lk_pc[i] = "store"
    /\ user_read_books_cache' =
          cache_setitem(user_read_books_cache, lk_user, FetchedIds(lk_answer[i]))
    /\ lk_result' = [lk_result EXCEPT ![i] = FetchedIds(lk_answer[i])]
    /\ lk_pc' = [lk_pc EXCEPT ![i] = "done"]
    /\ UNCHANGED <<lk_user, lk_missing, lk_answer, lk_exc>>
    /\ OnlyLookups

LkCheckStep == \E i \in Lookups : LkCheck(i)
LkFetchStep == \E i \in Lookups : LkFetch(i)
LkStoreStep == \E i \in Lookups : LkStore(i)

\* ------------------------------------------------------- specifications
\* Every component starts from its state after construction.
Init ==
    /\ BooksInit
    /\ CacheInit
    /\ PopInit
    /\ ReviewsInit
    /\ FilterInit
    /\ TaskInit
    /\ EnqueuerInit
    /\ ProfilesInit
    /\ CreateBookInit
    /\ PartitionInit
    /\ AuditInit
    /\ LookupsInit

\* The catalog handler under delivery and redelivery by the bus.
BooksNext == BooksDeliver \/ BooksRedeliver \/ BooksHandle

SpecBooks == Init /\ [][BooksNext]_vars

\* The owner cache under direct client calls and the passing of time.
CacheNext == CacheLookup \/ CacheOthers \/ CacheTick

SpecCache == Init /\ [][CacheNext]_vars

\* The user review service under calls and redelivered batches, while time
\* passes, other handlers enqueue scrape jobs and scrape jobs complete.
ReviewsNext == RvCall \/ RvCallAgain \/ RvOwner \/ JobEnqueued \/ BookIndexed \/ CacheTick

SpecReviews == Init /\ [][ReviewsNext]_vars

\* get_book_popularity of the v2 client under every interleaving of its tasks.
PopNext == PopCall \/ PopAttempt \/ PopReturn

SpecPop == Init /\ [][PopNext]_vars

\* _remove_reviews_already_indexed on every group and every list of read books.
FilterNext == FilterCall \/ FilterReturn \/ FilterDone \/ CacheTick

SpecFilter == Init /\ [][FilterNext]_vars

\* The task client under any sequence of enqueue calls.
TaskNext == TqEnqueueBook \/ TqEnqueueUserScrape

SpecTasks == Init /\ [][TaskNext]_vars

\* The book task enqueuer under calls on every list of books, every order of
\* the popularity attempts and every existence answer, while other handlers
\* enqueue scrape jobs and scrape jobs complete.
EnqueuerNext ==
    \/ FoCall \/ PopAttempt \/ PopReturn \/ FoCandidates \/ EnqFinish \/ EnqReturn
    \/ JobEnqueued \/ BookIndexed

SpecEnqueuer == Init /\ [][EnqueuerNext]_vars

\* The profile handler under deliveries of every envelope and every behaviour
\* of the queue.
ProfilesNext == PfDeliver \/ PfHandle

SpecProfiles == Init /\ [][ProfilesNext]_vars

\* create_book under calls for every book and every answer.
CreateBookNext == CbCall \/ CbAnswer

SpecCreateBook == Init /\ [][CreateBookNext]_vars

\* The book task enqueuer with its popularity requests running as concurrent
\* tasks, under every interleaving of their attempts.
FanOutNext == FoCall \/ PopAttempt \/ PopReturn \/ FoCandidates \/ EnqFinish \/ EnqReturn

SpecFanOut == Init /\ [][FanOutNext]_vars

\* The partition of a message by owner.
PartitionNext == PtCall \/ PtPartition

SpecPartition == Init /\ [][PartitionNext]_vars

\* The audit client publishing a batch.
AuditNext ==
    AuSendBatch \/ AuPublish \/ AuAddCallback \/ AuComplete \/ AuCallback \/ AuWait \/ AuReturn

SpecAudit == Init /\ [][AuditNext]_vars

\* Lookups of one owner in progress at the same time.
LookupsNext == LkBegin \/ LkCheckStep \/ LkFetchStep \/ LkStoreStep

SpecLookups == Init /\ [][LookupsNext]_vars

\* ------------------------------------------------ claims: catalog handler
BooksHandledOk == bk_pc = "idle" /\ bk_envelope.kind = "ok" /\ Len(bk_answers) = Len(bk_envelope.items)

AllItemsValid == \A i \in 1..Len(bk_envelope.items) : bk_envelope.items[i].valid

\* C4: for a batch of N valid items where create_book answers 4xx for item k
\* only and succeeds for every other item, the response is 200 with
\* indexed = N - 1.
C4_PartialFailureIsolation ==
    (/\ BooksHandledOk
     /\ AllItemsValid
     /\ \E k \in 1..Len(bk_envelope.items) :
           /\ is_client_error(bk_answers[k])
           /\ \A i \in 1..Len(bk_envelope.items) : i # k => create_book(bk_answers[i]) = "ok")
    => bk_response = [status |-> 200, indexed |-> Len(bk_envelope.items) - 1]

\* C5: if a create_book call of the batch yields a 5xx or a transport failure,
\* the handler answers 500 and publishes nothing to the audit topic, also not
\* the items written before the failing one.
C5_ServerErrorAbortsBatch ==
    (/\ BooksHandledOk
     /\ \E c \in 1..Len(bk_calls) :
           create_book(bk_answers[bk_calls[c].pos]) = "BookRecommenderApiServerException")
    => bk_response.status = 500 /\ bk_published = <<>>

\* A batch whose first item was written and whose second write failed with a
\* server error.
C5_Witness ==
    /\ BooksHandledOk
    /\ Len(bk_calls) = 2
    /\ create_book(bk_answers[bk_calls[1].pos]) = "ok"
    /\ create_book(bk_answers[bk_calls[2].pos]) = "BookRecommenderApiServerException"
    /\ bk_calls[1].book_id \in apiBooks
    /\ bk_response.status = 500

\* C6: for every malformed payload _unpack_envelope yields an empty item
\* sequence and the handler answers 200 without a write or an audit call.
C6_MalformedAcknowledged ==
    (bk_pc = "idle" /\ bk_envelope.kind \in MalformedKinds)
    => /\ unpack_envelope(bk_envelope) = [is_none |-> FALSE, items |-> <<>>]
       /\ bk_response.status = 200
       /\ bk_calls = <<>>
       /\ bk_published = <<>>

\* C10: once a batch that was answered 500 and redelivered is acknowledged
\* with 200, every valid record of it that the downstream accepts is stored.
C10_RedeliveryConverges ==
    (BooksHandledOk /\ bk_aborted /\ bk_response.status = 200)
    => \A i \in 1..Len(bk_envelope.items) :
          (bk_envelope.items[i].valid /\ create_book(bk_answers[i]) = "ok")
          => bk_envelope.items[i].book_id \in apiBooks

IsValid(item) == item.valid

\* The positions of the valid items of the handled catalog batch, in order.
ValidPositions == SelectSeq([i \in 1..Len(bk_envelope.items) |-> i],
                            LAMBDA i : bk_envelope.items[i].valid)

\* The task queue with any of the user scrape tasks in it.
UserTaskQueues ==
    SUBSET {[name |-> user_task_name(u), spider |-> "user_reviews", arg |-> u] : u \in Users}

\* C21: an item that fails validation is skipped and never ends the batch.
\* Catalog handler: every valid item that no failed write precedes is sent to
\* create_book, whatever invalid items stand before or after it; when every
\* write succeeds the response is 200, the calls are exactly the valid items in
\* order and indexed is their number.  Profile handler: for every batch and
\* every queue that answers, the response is 200 and the tasks and the
\* published items are exactly the valid items, in order.
C21_ValidationFailuresDropped ==
    /\ BooksHandledOk =>
          /\ \A i \in 1..Len(bk_envelope.items) :
                (/\ bk_envelope.items[i].valid
                 /\ \A j \in 1..(i - 1) :
                       bk_envelope.items[j].valid => create_book(bk_answers[j]) = "ok")
                => \E c \in 1..Len(bk_calls) : bk_calls[c].pos = i
          /\ (\A i \in 1..Len(bk_envelope.items) :
                 bk_envelope.items[i].valid => create_book(bk_answers[i]) = "ok")
             => /\ bk_response = [status |-> 200, indexed |-> Len(ValidPositions)]
                /\ [c \in 1..Len(bk_calls) |-> bk_calls[c].pos] = ValidPositions
    /\ \A env \in ProfileEnvelopes : \A q \in UserTaskQueues :
          env.kind = "ok" =>
             LET out == profiles_handle_pubsub_message(
                            env, [i \in 1..Len(env.items) |-> "none"], q)
                 valid == SelectSeq(env.items, IsValid)
             IN /\ out.status = 200
                /\ out.published = valid
                /\ Len(out.tasks) = Len(valid)

\* The create_book calls of the handled catalog batch that succeeded, in order.
SucceededCalls == SelectSeq(bk_calls, LAMBDA c : create_book(bk_answers[c.pos]) = "ok")

\* C22: when the catalog handler answers 200, the records passed to the audit
\* publisher are the raw items whose create_book call succeeded, as delivered
\* and in delivery order (so none whose write failed), their number is the
\* indexed count, and no item that failed validation is among them.
C22_AuditMirrorsConfirmedWrites ==
    (BooksHandledOk /\ bk_response.status = 200) =>
        /\ bk_published = [c \in 1..Len(SucceededCalls) |-> bk_envelope.items[SucceededCalls[c].pos]]
        /\ Len(bk_published) = bk_response.indexed
        /\ \A k \in 1..Len(bk_published) : bk_published[k].valid

\* A batch answered 200 whose first item was written and published and whose
\* second write was refused with a 4xx.
C22_Witness ==
    /\ BooksHandledOk
    /\ bk_response = [status |-> 200, indexed |-> 1]
    /\ Len(bk_calls) = 2
    /\ create_book(bk_answers[1]) = "ok"
    /\ is_client_error(bk_answers[2])
    /\ bk_published = <<bk_envelope.items[1]>>

\* -------------------------------------------------- claims: owner cache
\* C7: once a set S was fetched for a user, every call for that user within
\* the ttl window (counted from the fetch, reads do not extend it) returns S
\* without a downstream request, and a call after the window asks downstream.
C7_OwnerCacheWindow ==
    (cc_last.user # 0 /\ cc_last.prior.known)
    => IF cc_last.prior.elapsed < ttl
       THEN /\ cc_last.exc = "none"
            /\ cc_last.result = cc_last.prior.book_ids
            /\ ~cc_last.requested
       ELSE cc_last.requested

\* C20: a call answered 4xx returns the empty list, and while less than ttl
\* has passed since a user's request was answered 4xx every call for that
\* user returns the empty list without a downstream request.
C20_NegativeAnswerCached ==
    cc_last.user # 0 =>
        /\ (cc_last.requested /\ is_client_error(Http(cc_last.status)))
           => (cc_last.exc = "none" /\ cc_last.result = {})
        /\ (cc_last.prior.known /\ is_client_error(Http(cc_last.prior.status))
                /\ cc_last.prior.elapsed < ttl)
           => (~cc_last.requested /\ cc_last.exc = "none" /\ cc_last.result = {})

\* The answers that are a 5xx or a transport failure.
LookupFailures == {a \in BookIdsAnswers : a.exc # "none" \/ is_server_error(a)}

\* C33: a lookup that met a 5xx or a transport failure raised
\* BookRecommenderApiServerException and left no live entry for its user, so
\* any next lookup for that user asks downstream again; on every cache of the
\* run such a failure leaves the cache as it was, and a lookup for another
\* user gives a user without a live entry none.
C33_FailedLookupLeavesCache ==
    /\ (cc_last.user # 0 /\ cc_last.requested
            /\ (cc_last.status = 0 \/ is_server_error(Http(cc_last.status))))
       => /\ cc_last.exc = "BookRecommenderApiServerException"
          /\ ~cache_contains(user_read_books_cache, cc_last.user)
          /\ \A a \in BookIdsAnswers :
                get_books_read_by_user(user_read_books_cache, cc_last.user, a).requested
    /\ \A u \in Users : ~cache_contains(user_read_books_cache, u) =>
          /\ \A a \in LookupFailures :
                LET r == get_books_read_by_user(user_read_books_cache, u, a) IN
                /\ r.exc = "BookRecommenderApiServerException"
                /\ r.requested
                /\ r.cache = user_read_books_cache
          /\ \A v \in Users \ {u} : \A a \in BookIdsAnswers :
                ~cache_contains(get_books_read_by_user(user_read_books_cache, v, a).cache, u)

\* A lookup answered 500 for a user whose earlier entry had expired, while
\* another user's entry is live.
C33_Witness ==
    /\ cc_last.user # 0
    /\ cc_last.requested
    /\ cc_last.status = 500
    /\ cc_last.exc = "BookRecommenderApiServerException"
    /\ cc_last.prior.known
    /\ cc_last.prior.elapsed = ttl
    /\ \E v \in Users \ {cc_last.user} : cache_contains(user_read_books_cache, v)

\* ------------------------------------------------ claims: popularity fan-out
PopSucceeded(i) == pop_tasks[i].outcome = "ok"

\* No task after position i got a count for the same book.
PopLastSuccess(i) ==
    \A j \in (i + 1)..Len(pop_tasks) : pop_ids[j] = pop_ids[i] => ~PopSucceeded(j)

\* No other task got a count for the book of task i.
PopOnlyRequest(i) ==
    \A j \in 1..Len(pop_tasks) : (j # i /\ pop_ids[j] = pop_ids[i]) => ~PopSucceeded(j)

\* C8: once get_book_popularity has returned, a book whose request was answered
\* 429/503/504 on attempts 1 and 2 and a count on attempt 3 is in the result
\* map with that count (unless a later list position for the same book
\* overwrote it); a book whose request was answered 429/503/504 on the first 3
\* attempts is not put in the map by that request; and every book that got a
\* count is in the map.
C8_PopularityRetryOutcome ==
    pop_pc = "returned" =>
        \A i \in 1..Len(pop_tasks) :
            /\ (pop_tasks[i].attempts = stop_after_attempt
                    /\ pop_tasks[i].retryable_statuses = stop_after_attempt - 1
                    /\ PopSucceeded(i))
               => /\ pop_ids[i] \in DOMAIN pop_result.map
                  /\ PopLastSuccess(i) => pop_result.map[pop_ids[i]] = pop_tasks[i].user_count
            /\ pop_tasks[i].retryable_statuses >= stop_after_attempt
               => /\ PopOnlyRequest(i) => pop_ids[i] \notin DOMAIN pop_result.map
                  /\ \A j \in 1..Len(pop_tasks) :
                        (PopSucceeded(j) /\ PopLastSuccess(j))
                        => /\ pop_ids[j] \in DOMAIN pop_result.map
                           /\ pop_result.map[pop_ids[j]] = pop_tasks[j].user_count

\* One book succeeded on its third attempt after two retryable statuses,
\* another was answered a retryable status three times; the map holds the first.
C8_Witness ==
    /\ pop_pc = "returned"
    /\ \E i, j \in 1..Len(pop_tasks) :
          /\ pop_ids[i] # pop_ids[j]
          /\ pop_tasks[i].attempts = stop_after_attempt
          /\ pop_tasks[i].retryable_statuses = stop_after_attempt - 1
          /\ PopSucceeded(i)
          /\ pop_tasks[j].retryable_statuses = stop_after_attempt
          /\ pop_tasks[j].outcome = "RetryError"
          /\ DOMAIN pop_result.map = {pop_ids[i]}
          /\ pop_result.map[pop_ids[i]] = BOOK_POPULARITY_THRESHOLD

\* C9: whatever the outcome of each request (a count, retries used up, a
\* status that is not retried, another exception such as a read timeout), the
\* call returns once every request has ended, and the keys of its map are
\* exactly the books whose request ended with a count, each with the count of
\* its last such request.
C9_PopularityFailuresOmitted ==
    /\ (pop_pc = "running" /\ \A i \in 1..Len(pop_tasks) : pop_tasks[i].state = "done")
       => ENABLED PopReturn
    /\ pop_pc = "returned" =>
          /\ DOMAIN pop_result.map = {pop_ids[i] : i \in {k \in 1..Len(pop_tasks) : PopSucceeded(k)}}
          /\ \A i \in 1..Len(pop_tasks) :
                (PopSucceeded(i) /\ PopLastSuccess(i))
                => pop_result.map[pop_ids[i]] = pop_tasks[i].user_count

\* A read timeout for one book and a count for another: the call has returned
\* a map holding only the second.
C9_Witness ==
    /\ pop_pc = "returned"
    /\ \E i, j \in 1..Len(pop_tasks) :
          /\ pop_ids[i] # pop_ids[j]
          /\ pop_tasks[i].outcome = "ReadTimeout"
          /\ PopSucceeded(j)
          /\ DOMAIN pop_result.map = {pop_ids[j]}
          /\ pop_result.map[pop_ids[j]] = pop_tasks[j].user_count

\* The classes of an answer to a popularity request.
PopSuccess(a) == a.exc = "none" /\ a.status < 400
PopRetryableStatus(a) == a.exc = "none" /\ a.status \in {429, 503, 504}
PopConnectFailure(a) == a.exc \in {"ConnectError", "ConnectTimeout"}
PopOtherErrorStatus(a) == a.exc = "none" /\ a.status >= 400 /\ ~PopRetryableStatus(a)

\* C28: no request is attempted more than 3 times; a request that ended with
\* every attempt answered 429/503/504 was attempted exactly 3 times; a first
\* attempt that succeeds or is answered a status that is not retried ends the
\* request after 1 attempt; and a request that has ended is not attempted again.
C28_RetryAttemptCeiling ==
    /\ [](\A i \in 1..Len(pop_tasks) :
            /\ pop_tasks[i].attempts <= 3
            /\ (pop_tasks[i].state = "done" /\ pop_tasks[i].attempts > 0
                    /\ pop_tasks[i].retryable_statuses = pop_tasks[i].attempts)
               => pop_tasks[i].attempts = 3
            /\ pop_tasks[i].state = "pending" =>
                  /\ pop_tasks[i].attempts < 3
                  /\ \A a \in PopAnswers :
                        (PopSuccess(a) \/ PopOtherErrorStatus(a))
                        => LET t == make_book_popularity_request(pop_tasks[i], a) IN
                           t.state = "done" /\ t.attempts = pop_tasks[i].attempts + 1)
    /\ [][(pop_pc = "running" /\ pop_pc' = "running")
          => \A i \in 1..Len(pop_tasks) :
                pop_tasks[i].state = "done" => pop_tasks'[i] = pop_tasks[i]]_vars

\* A returned call on two books: one request was answered a retried status 3
\* times and ended after 3 attempts, the other was answered a status that is
\* not retried and ended after 1.
C28_Witness ==
    /\ pop_pc = "returned"
    /\ Len(pop_tasks) = 2
    /\ pop_tasks[1].attempts = 3
    /\ pop_tasks[1].retryable_statuses = 3
    /\ pop_tasks[1].outcome = "RetryError"
    /\ pop_tasks[2].attempts = 1
    /\ pop_tasks[2].outcome = "NonRetryableException"

\* What the classification demands of one attempt of a request, given the
\* task before the attempt, the answer and the task after it.
PopClassified(task, a, t) ==
    /\ PopSuccess(a) => (t.state = "done" /\ t.outcome = "ok")
    /\ (PopRetryableStatus(a) \/ PopConnectFailure(a))
       => IF task.attempts + 1 < 3 THEN t.state = "pending"
          ELSE t.state = "done" /\ t.outcome = "RetryError"
    /\ PopOtherErrorStatus(a) => (t.state = "done" /\ t.outcome = "NonRetryableException")

\* C29: in both clients, an attempt answered with a count ends the request
\* with it; an attempt answered 429/503/504 or failing to connect is retried
\* while attempts are left; an attempt answered any other error status ends
\* the request as non-retryable.
C29_PopularityClassification ==
    \A i \in 1..Len(pop_tasks) :
        pop_tasks[i].state = "pending" =>
            \A a \in PopAnswers :
                /\ PopClassified(pop_tasks[i], a, make_book_popularity_request(pop_tasks[i], a))
                /\ PopClassified(pop_tasks[i], a, make_book_popularity_request_v1(pop_tasks[i], a))

PopAllDone == \A i \in 1..Len(pop_tasks) : pop_tasks[i].state = "done"

\* C30: get_book_popularity has returned only when every request of the call
\* has ended, and its map is the one gathered from all of them; the service
\* holds that map when it goes on, and the existence request and the enqueue
\* calls are made only after that, whatever the order of the attempts.
C30_FanOutJoin ==
    /\ [](/\ pop_pc = "returned" =>
                /\ PopAllDone
                /\ pop_result = gather_book_info(pop_ids, pop_tasks, 1, EmptyDict)
          /\ enq_pc \in {"candidates", "returned"} =>
                /\ PopAllDone
                /\ pop_ids = enq_book_ids
                /\ enq_book_info = gather_book_info(pop_ids, pop_tasks, 1, EmptyDict))
    /\ [][(queue' # queue \/ (enq_pc # "returned" /\ enq_pc' = "returned"))
          => (pop_pc = "returned" /\ PopAllDone /\ enq_pc = "candidates"
              /\ enq_book_info = pop_result)]_vars

\* A call on two books whose requests ended after 3 attempts and after 1; the
\* book of the retried request was enqueued after both had ended.
C30_Witness ==
    /\ enq_pc = "returned"
    /\ Len(pop_tasks) = 2
    /\ pop_tasks[1].attempts = 3
    /\ pop_tasks[1].outcome = "ok"
    /\ pop_tasks[2].attempts = 1
    /\ pop_tasks[2].outcome = "NonRetryableException"
    /\ enq_enqueued = {pop_ids[1]}
    /\ pop_ids[1] \in queue

\* ------------------------------------------- claims: user review service
LogOf(op) == {i \in 1..Len(rv_log) : rv_log[i].op = op}

\* A call on a batch has ended and every request it made was answered 2xx.
RvAnsweredOk ==
    /\ rv_pc = "idle"
    /\ rv_batch # <<>>
    /\ ~rv_fault
    /\ \A i \in 1..Len(rv_log) : rv_log[i].ok

\* C1: when a call repeats the batch of the call before it, and the requests
\* of both calls were answered 2xx by a downstream that stores what it is
\* sent, the second call returns, reports indexed = 0 and none of its enqueue
\* results is a task name.
C1_IdempotentRedelivery ==
    (RvAnsweredOk /\ rv_redelivered /\ rv_prior.answered)
    => /\ rv_response.exc = "none"
       /\ rv_response.indexed = 0
       /\ \A i \in 1..Len(rv_response.tasks) : rv_response.tasks[i] = Duplicate

\* C2: no (user_id, book_id) pair is stored downstream more than once, that is,
\* no pair is part of two accepted create_batch_user_reviews submissions or
\* twice part of one.
C2_AtMostOneRecordPerPair == apiReviewsTwice = {}

\* C3: a call of the enqueuer gets a task name from enqueue_book for a book
\* only if no job of that book was in the queue, whether an earlier call or
\* another handler had put it there, and "duplicate" for every other book it
\* enqueues; its results hold no task name twice.
C3_SchedulingDedup ==
    [][(enq_pc = "candidates" /\ enq_pc' = "returned" /\ enq_response'.exc = "none")
       => /\ \A b \in Books :
                /\ TaskName(b) \in Range(enq_response'.tasks) => b \in enq_enqueued' \ queue
                /\ Cardinality({i \in 1..Len(enq_response'.tasks) :
                                   enq_response'.tasks[i] = TaskName(b)}) <= 1
          /\ Cardinality({i \in 1..Len(enq_response'.tasks) :
                             enq_response'.tasks[i] = Duplicate})
                = Cardinality(enq_enqueued' \cap queue)]_vars

\* A call on two popular books, neither stored downstream, of which the one
\* that comes first in the set's order already has its job in the queue: the
\* results are "duplicate" and the task name of the other.
C3_Witness ==
    /\ enq_pc = "returned"
    /\ enq_response.exc = "none"
    /\ Len(enq_response.tasks) = 2
    /\ enq_response.tasks[1] = Duplicate
    /\ enq_response.tasks[2].name = "book"
    /\ enq_enqueued \subseteq queue

\* C12: a call in which a batch-create request was answered 4xx (other than
\* 429) does not fail: it returns a response.
C12_ClientErrorIsolated ==
    (rv_pc = "idle" /\ rv_write_4xx) => rv_response.exc = "none"

\* C13: once a read-books or batch-create request of a call is answered 5xx,
\* 429 (batch-create) or fails in transport, the call ends with
\* BookRecommenderApiServerException and makes no write or enqueue call after it.
C13_ServerErrorAbortsCall ==
    /\ rv_fault => (rv_pc = "idle" /\ rv_response.exc = "BookRecommenderApiServerException")
    /\ ~rv_after_fault

\* A batch of two owners whose first owner's batch-create request got the
\* server error: the call has ended with the exception after the filter and
\* the write call of that owner, nothing is stored and nothing was enqueued.
C13_Witness ==
    /\ rv_fault
    /\ rv_pc = "idle"
    /\ rv_calls = 1
    /\ Len(rv_batch) = 2
    /\ rv_batch[1].user_id # rv_batch[2].user_id
    /\ Len(rv_log) = 2
    /\ rv_log[2].op = "write"
    /\ ~rv_log[2].ok
    /\ apiReviews = {}
    /\ LogOf("enqueue") = {}
    /\ rv_response.exc = "BookRecommenderApiServerException"

\* C15: when a call whose requests were all answered 2xx has ended, every book
\* referenced by a review of the batch is stored downstream or has its job in
\* the queue, whether or not the review was written by this call.
C15_AllReferencedBooksScheduled ==
    RvAnsweredOk => \A i \in 1..Len(rv_batch) : rv_batch[i].book_id \in apiBooks \cup queue

\* C17: a pass of the owner loop that ends a call with every request of the
\* call answered 2xx, on a batch that references a book that was not stored
\* downstream and had its job in the queue before the pass, leaves the call
\* answered with HTTP 200, carrying the indexed count the downstream reported
\* and "duplicate" in its tasks list.
C17_QueueDuplicateIsNormal ==
    [][(/\ rv_pc = "running"
        /\ rv_pc' = "idle"
        /\ ~rv_fault'
        /\ \A i \in 1..Len(rv_log') : rv_log'[i].ok
        /\ \E i \in 1..Len(rv_batch) : rv_batch[i].book_id \in queue \ apiBooks)
       => /\ user_reviews_handle(rv_response').status = 200
          /\ user_reviews_handle(rv_response').indexed = rv_reported'
          /\ Duplicate \in Range(user_reviews_handle(rv_response').tasks)]_vars

\* C23: a call whose requests were all answered 2xx, on a batch in which two
\* owners reference the same book, returns a tasks list with a single entry
\* for every distinct book that was enqueued.
C23_OneTaskPerDistinctBook ==
    (RvAnsweredOk /\ \E i, j \in 1..Len(rv_batch) :
                        /\ rv_batch[i].user_id # rv_batch[j].user_id
                        /\ rv_batch[i].book_id = rv_batch[j].book_id)
    => /\ rv_response.exc = "none"
       /\ Len(rv_response.tasks) = Cardinality(rv_enqueued)

\* C24: a call whose requests were all answered 2xx returns, and its indexed
\* value is the sum of the indexed values the downstream reported to its
\* batch-create requests.
C24_IndexedAggregatedFromAnswers ==
    RvAnsweredOk => (rv_response.exc = "none" /\ rv_response.indexed = rv_reported)

\* C25: a call in which every read and write succeeded and an existence
\* request was answered 5xx or failed in transport is answered with HTTP 200.
C25_ExistenceServerErrorSuppressed ==
    (rv_pc = "idle" /\ rv_calls > 0 /\ rv_exists_5xx /\ ~rv_fault /\ ~rv_write_4xx)
    => user_reviews_handle(rv_response).status = 200

\* The phase a call belongs to: Filtered, Written, Scheduled.
PhaseOf(call) == CASE call.op = "filter" -> 1
                   [] call.op = "write" -> 2
                   [] OTHER -> 3

\* C31: the calls of one batch are made phase by phase: no call of an
\* earlier phase follows a call of a later one, and when the first call of
\* the Scheduled phase is made every owner of the batch has been filtered.
C31_BatchPhaseOrder ==
    /\ \A i, j \in 1..Len(rv_log) : i < j => PhaseOf(rv_log[i]) <= PhaseOf(rv_log[j])
    /\ \A i \in 1..Len(rv_log) :
          PhaseOf(rv_log[i]) = 3
          => \A k \in 1..Len(rv_batch) :
                \E j \in 1..(i - 1) :
                   rv_log[j].op = "filter" /\ rv_log[j].user_id = rv_batch[k].user_id

\* C32: a call makes at most one write call per owner; the write call of an
\* owner follows that owner's filter and carries exactly what the filter
\* left, which includes every review of the owner whose book the lookup did
\* not report; an owner with nothing left gets no write call.
C32_OneWritePerOwner ==
    /\ \A i, j \in LogOf("write") : rv_log[i].user_id = rv_log[j].user_id => i = j
    /\ \A i \in LogOf("write") :
          /\ i > 1
          /\ rv_log[i - 1].op = "filter"
          /\ rv_log[i - 1].user_id = rv_log[i].user_id
          /\ rv_log[i].reviews # <<>>
          /\ rv_log[i].reviews =
                remove_reviews_already_indexed(rv_log[i - 1].reviews, rv_log[i - 1].books)
          /\ \A k \in 1..Len(rv_batch) :
                (rv_batch[k].user_id = rv_log[i].user_id
                    /\ rv_batch[k].book_id \notin rv_log[i - 1].books)
                => rv_batch[k] \in Range(rv_log[i].reviews)
    /\ \A i \in LogOf("filter") :
          remove_reviews_already_indexed(rv_log[i].reviews, rv_log[i].books) # <<>>
          => (i < Len(rv_log) /\ rv_log[i + 1].op = "write"
              /\ rv_log[i + 1].user_id = rv_log[i].user_id)

\* A batch of two reviews of one owner, on two books: the lookup reported one
\* of the books, that review was filtered out and the other one was written
\* in the owner's single write call.
C32_Witness ==
    /\ rv_pc = "idle"
    /\ Len(rv_batch) = 2
    /\ rv_batch[1].user_id = rv_batch[2].user_id
    /\ rv_batch[1].book_id # rv_batch[2].book_id
    /\ Cardinality(LogOf("write")) = 1
    /\ \E w \in LogOf("write") :
          /\ rv_log[w].ok
          /\ Len(rv_log[w].reviews) = 1
          /\ Cardinality(rv_log[w - 1].books) = 1

\* The owner whose pass of the owner loop is next.
RvCurrentOwner == partition_keys(rv_batch, {})[rv_k]

\* C38: a pass of the owner loop changes the owner cache only as the lookup
\* of that pass changes it (the write, the existence request and the enqueue
\* calls of the pass leave it alone), and every other step changes it only
\* by ageing; so while an owner for whom a write of this call succeeded has a
\* live entry, the entry is the set the lookup of that pass returned.
C38_OwnerCacheWrittenByLookupOnly ==
    /\ [](\A w \in LogOf("write") :
            (rv_log[w].ok /\ cache_contains(user_read_books_cache, rv_log[w].user_id))
            => cache_getitem(user_read_books_cache, rv_log[w].user_id).value
                  = rv_log[w - 1].books)
    /\ [][IF rv_pc = "running" /\ <<rv_pc, rv_k>>' # <<rv_pc, rv_k>>
          THEN \E ra \in ReadAnswersFor(RvCurrentOwner) :
                  user_read_books_cache' =
                      get_books_read_by_user(user_read_books_cache, RvCurrentOwner, ra).cache
          ELSE user_read_books_cache' # user_read_books_cache
               => \E d \in TickSteps :
                     user_read_books_cache' = cache_age(user_read_books_cache, d)]_vars

\* A call has written a review of an owner whose lookup had returned a
\* non-empty set: the entry is still that set, while downstream the owner has
\* more books.
C38_Witness ==
    /\ rv_pc = "idle"
    /\ \E w \in LogOf("write") :
          /\ rv_log[w].ok
          /\ rv_log[w - 1].books # {}
          /\ cache_contains(user_read_books_cache, rv_log[w].user_id)
          /\ cache_getitem(user_read_books_cache, rv_log[w].user_id).value = rv_log[w - 1].books
          /\ BooksStoredFor(rv_log[w].user_id) # rv_log[w - 1].books

RvAborted == rv_pc = "idle" /\ rv_response.exc = "BookRecommenderApiServerException"

LogWritten == UNION {Range(review_pairs(rv_log[i].reviews)) : i \in {w \in LogOf("write") : rv_log[w].ok}}
LogEnqueued == UNION {rv_log[i].books : i \in LogOf("enqueue")}

C11_FilterRemovesExactlyIndexed ==
    flt_pc = "returned"
    => flt_result = SelectSeq(flt_user_reviews, LAMBDA r : r.book_id \notin flt_books_read)

\* ------------------------------------------------------ claims: task client
TqKeys == [spider : {"book"}, arg : Books] \cup [spider : {"user_reviews"}, arg : Users]

\* C16: the queue holds exactly one task for every key enqueued and none for
\* any other key; the first answered call for a key returns the task name
\* book-<id> or user-<id>, every later one returns "duplicate" and leaves the
\* queue as it was.
C16_IdempotentEnqueue ==
    /\ \A k \in TqKeys :
          Cardinality({t \in tq_tasks : t.spider = k.spider /\ t.arg = k.arg})
            = IF k \in tq_called THEN 1 ELSE 0
    /\ (tq_last.spider # "none" /\ tq_last.fault = "none") =>
          IF tq_last.first
          THEN /\ tq_last.result.kind = "name"
               /\ tq_last.result.name =
                    [prefix |-> IF tq_last.spider = "book" THEN "book" ELSE "user", id |-> tq_last.arg]
          ELSE tq_last.result.kind = "duplicate" /\ tq_last.unchanged

\* A second call for a book that is queued is answered "duplicate" while the
\* queue also holds a task of a user with the same id.
C16_Witness ==
    /\ tq_last.spider = "book"
    /\ tq_last.fault = "none"
    /\ ~tq_last.first
    /\ tq_last.result.kind = "duplicate"
    /\ \E t \in tq_tasks : t.spider = "user_reviews" /\ t.arg = tq_last.arg
    /\ \E t \in tq_tasks : t.spider = "book" /\ t.arg = tq_last.arg

\* C18: a call whose create_task failed with something other than
\* AlreadyExists raises that failure: it returns neither "duplicate" nor a
\* task name.
C18_QueueFailurePropagates ==
    tq_last.fault # "none"
    => /\ tq_last.result.kind = "raised"
       /\ tq_last.result.exc = tq_last.fault
       /\ tq_last.unchanged

\* A user scrape for a key that is queued meets an unavailable queue.
C18_Witness ==
    /\ tq_last.spider = "user_reviews"
    /\ tq_last.fault = "ServiceUnavailable"
    /\ ~tq_last.first
    /\ tq_last.result.kind = "raised"

\* -------------------------------------------- claims: book task enqueuer
\* The books that pass the gate of the returned call: requested, with an
\* observed count of at least the threshold, and not reported present.
EnqGated ==
    {b \in Range(enq_book_ids) :
        /\ b \in DOMAIN enq_book_info.map
        /\ enq_book_info.map[b] >= BOOK_POPULARITY_THRESHOLD
        /\ b \notin enq_present}

\* The existence request of the ended call failed with a 5xx or in transport.
EnqExistsFailed == enq_exists.exc \notin {"none", "unused"} \/ is_server_error(enq_exists)

\* C14: a call of enqueue_books_if_necessary enqueues exactly the requested
\* books whose observed popularity is at least BOOK_POPULARITY_THRESHOLD and
\* which the existence check did not report, and its tasks list has one entry
\* per enqueued book, unless its existence request failed with a server error
\* or in transport or the queue failed; no call enqueues a book with a lower
\* count or without a popularity.
C14_PopularityGating ==
    enq_pc = "returned" =>
        /\ \A b \in enq_enqueued :
              b \in DOMAIN enq_book_info.map /\ enq_book_info.map[b] >= BOOK_POPULARITY_THRESHOLD
        /\ (~EnqExistsFailed /\ enq_response.exc \notin QueueFaults) =>
              /\ enq_enqueued = EnqGated
              /\ Len(enq_response.tasks) = Cardinality(EnqGated)

\* C19: a call whose existence request was answered with a 4xx does not fail
\* and enqueues every candidate.
C19_ExistenceClientErrorIsNegative ==
    (enq_pc = "returned" /\ enq_exists.exc = "none" /\ is_client_error(enq_exists)) =>
        /\ enq_response.exc = "none"
        /\ enq_enqueued = Range(get_candidates_above_indexing_threshold(enq_book_ids, enq_book_info))

EnqCandidates == Range(get_candidates_above_indexing_threshold(enq_book_ids, enq_book_info))

\* C36: a call whose existence request met a 5xx or a transport failure
\* ends with BookRecommenderApiServerException at its caller; a call that
\* ends with an exception other than a failure of the queue has made no
\* enqueue_book call: the queue is as it was when the call started; a call
\* without a book above the threshold makes no existence request and returns
\* an empty tasks list.
C36_QueryErrorsBeforeEnqueue ==
    /\ [](enq_pc = "returned" =>
            /\ (enq_exists.exc \notin {"none", "unused"} \/ is_server_error(enq_exists))
               => enq_response.exc = "BookRecommenderApiServerException"
            /\ enq_response.exc \notin (QueueFaults \cup {"none"})
               => (enq_enqueued = {} /\ enq_response.tasks = <<>>)
            /\ EnqCandidates = {}
               => (enq_exists = NoAnswer /\ enq_response.exc = "none"
                   /\ enq_response.tasks = <<>>)
            /\ EnqCandidates # {} => enq_exists # NoAnswer)
    /\ [][(enq_pc = "candidates" /\ enq_pc' = "returned"
            /\ (enq_response'.exc \notin (QueueFaults \cup {"none"}) \/ EnqCandidates = {}))
          => queue' = queue]_vars

\* A call on two popular books, neither of them in the queue, whose existence
\* request was answered 500: the exception is at the caller and the queue
\* holds neither book.
C36_Witness ==
    /\ enq_pc = "returned"
    /\ Cardinality(EnqCandidates) = 2
    /\ enq_exists = Fault(500)
    /\ enq_response.exc = "BookRecommenderApiServerException"
    /\ EnqCandidates \cap queue = {}

\* The popularity results over any keys, requested or not.
AnyBookInfo ==
    UNION {{[keys |-> ks, map |-> m] :
               m \in [Range(ks) -> {BOOK_POPULARITY_THRESHOLD - 1, BOOK_POPULARITY_THRESHOLD}]} :
           ks \in {s \in SeqsUpTo(Books, NumBooks) : Cardinality(Range(s)) = Len(s)}}

\* C40: the books a call passes to enqueue_book are among the ids it was
\* called with, it makes one call per such book even when the list repeats
\* an id, and whatever keys a popularity result holds, the candidates taken
\* from it are requested ids with a count of at least the threshold.
C40_OnlyRequestedScheduled ==
    /\ enq_pc = "returned" =>
          /\ enq_enqueued \subseteq Range(enq_book_ids)
          /\ Len(enq_response.tasks) <= Cardinality(Range(enq_book_ids))
          /\ enq_response.exc = "none" => Len(enq_response.tasks) = Cardinality(enq_enqueued)
          /\ \A b \in Books :
                Cardinality({i \in 1..Len(enq_response.tasks) :
                                enq_response.tasks[i] = TaskName(b)}) <= 1
    /\ \A book_ids \in SeqsUpTo(Books, MaxBatch) : \A book_info \in AnyBookInfo :
          /\ Range(get_candidates_above_indexing_threshold(book_ids, book_info))
                \subseteq Range(book_ids)
          /\ \A b \in Range(book_ids) \cap DOMAIN book_info.map :
                book_info.map[b] >= BOOK_POPULARITY_THRESHOLD
                => b \in Range(get_candidates_above_indexing_threshold(book_ids, book_info))

\* A call whose list names the same popular book twice has returned with one
\* task for it.
C40_Witness ==
    /\ enq_pc = "returned"
    /\ Len(enq_book_ids) = 2
    /\ enq_book_ids[1] = enq_book_ids[2]
    /\ enq_enqueued = {enq_book_ids[1]}
    /\ enq_response.exc = "none"
    /\ enq_response.tasks = <<TaskName(enq_book_ids[1])>>

\* ---------------------------------------------------- claims: create_book
\* C26: create_book ends in exactly one of three ways, decided by what came
\* back: it returns on a status below 400, raises
\* BookRecommenderApiClientException on 400..499, raises
\* BookRecommenderApiServerException on 500..599 and on every transport
\* failure.
C26_CreateBookClassifies ==
    (cb_pc = "idle" /\ cb_outcome # "none") =>
        /\ cb_outcome \in {"ok", "BookRecommenderApiClientException",
                           "BookRecommenderApiServerException"}
        /\ cb_outcome = "ok"
              <=> (cb_answer.exc = "none" /\ cb_answer.status < 400)
        /\ cb_outcome = "BookRecommenderApiClientException"
              <=> (cb_answer.exc = "none" /\ cb_answer.status >= 400 /\ cb_answer.status <= 499)
        /\ cb_outcome = "BookRecommenderApiServerException"
              <=> (cb_answer.exc # "none"
                   \/ (cb_answer.status >= 500 /\ cb_answer.status <= 599))

\* A call that was answered 429 and raised the client exception.
C26_Witness ==
    /\ cb_pc = "idle"
    /\ cb_answer = Http(429)
    /\ cb_outcome = "BookRecommenderApiClientException"

\* ------------------------------------------------ claims: profile handler
\* A delivery of a profile batch has been handled.
ProfilesHandled == pf_pc = "idle" /\ pf_envelope.kind # "none"

ValidProfiles == SelectSeq(pf_envelope.items, IsValid)

\* C27: for every delivered profile batch the response is 200, tasks has one
\* entry per valid item in delivery order, each the task name user-{user_id}
\* of its item or "duplicate", the valid items are what is passed to the
\* audit publisher, and every task name in tasks, like the task of every
\* valid item, is in the queue.
C27_ProfileHandler ==
    ProfilesHandled =>
        /\ pf_response.status = 200
        /\ Len(pf_response.tasks) = Len(ValidProfiles)
        /\ pf_published = ValidProfiles
        /\ \A k \in 1..Len(pf_response.tasks) :
              /\ pf_response.tasks[k].kind \in {"name", "duplicate"}
              /\ pf_response.tasks[k].kind = "name"
                    => pf_response.tasks[k].name = user_task_name(ValidProfiles[k].user_id)
              /\ \E t \in tq_tasks : t.name = user_task_name(ValidProfiles[k].user_id)

\* ------------------------------------------------ claims: partition by owner
Count(seq, x) == Cardinality({i \in 1..Len(seq) : seq[i] = x})

FirstPosition(u) == CHOOSE i \in 1..Len(pt_message) :
                        /\ pt_message[i].user_id = u
                        /\ \A j \in 1..(i - 1) : pt_message[j].user_id # u

\* seq is sub taken out of it in order: some strictly increasing positions
\* of seq spell sub.
RECURSIVE IsSubsequence(_, _)
IsSubsequence(sub, seq) ==
    IF sub = <<>> THEN TRUE
    ELSE IF seq = <<>> THEN FALSE
    ELSE IF Head(sub) = Head(seq) THEN IsSubsequence(Tail(sub), Tail(seq))
    ELSE IsSubsequence(sub, Tail(seq))

\* C34: the groups of a partitioned message have distinct owners, each holds
\* only its owner's reviews and at least one, every review occurs in its
\* owner's group as often as in the message (none lost, none duplicated),
\* each group keeps the message order, and the owners are in the order of
\* their first review; the owner loop visits these groups in this order.
C34_PartitionByOwner ==
    pt_pc = "partitioned" =>
        /\ \A i, j \in 1..Len(pt_dict) : pt_dict[i].user_id = pt_dict[j].user_id => i = j
        /\ \A i \in 1..Len(pt_dict) :
              /\ pt_dict[i].reviews # <<>>
              /\ \A k \in 1..Len(pt_dict[i].reviews) :
                    pt_dict[i].reviews[k].user_id = pt_dict[i].user_id
              /\ IsSubsequence(pt_dict[i].reviews, pt_message)
        /\ \A r \in Reviews :
              /\ Count(pt_message, r) > 0
                 => \E i \in 1..Len(pt_dict) :
                       /\ pt_dict[i].user_id = r.user_id
                       /\ Count(pt_dict[i].reviews, r) = Count(pt_message, r)
              /\ Count(pt_message, r) = 0
                 => \A i \in 1..Len(pt_dict) : Count(pt_dict[i].reviews, r) = 0
        /\ \A i, j \in 1..Len(pt_dict) :
              i < j => FirstPosition(pt_dict[i].user_id) < FirstPosition(pt_dict[j].user_id)
        /\ partition_keys(pt_message, {}) = [i \in 1..Len(pt_dict) |-> pt_dict[i].user_id]
        /\ \A i \in 1..Len(pt_dict) :
              partition_of(pt_message, pt_dict[i].user_id) = pt_dict[i].reviews

\* A message of three reviews whose owners alternate, the first owner having
\* two different books.
C34_Witness ==
    /\ pt_pc = "partitioned"
    /\ Len(pt_message) = 3
    /\ pt_message[1].user_id = pt_message[3].user_id
    /\ pt_message[1].user_id # pt_message[2].user_id
    /\ pt_message[1].book_id # pt_message[3].book_id
    /\ Len(pt_dict) = 2
    /\ pt_dict[1].reviews = <<pt_message[1], pt_message[3]>>
    /\ pt_dict[2].reviews = <<pt_message[2]>>

\* ------------------------------------------------ claims: audit client
\* C35: send_batch makes one publish per message and is back with its caller
\* once every publish has confirmed or the bounded wait has passed: it is not
\* still waiting after more than result_timeout seconds, and a publish that
\* has not confirmed by then has been logged.
C35_AuditPublishBounded ==
    /\ au_pc \in {"waiting", "returned"} => Len(au_futures) = Len(au_messages)
    /\ au_pc = "waiting" => au_waited <= result_timeout
    /\ \A i \in 1..Len(au_futures) :
          (au_futures[i] = "pending" /\ au_waited > result_timeout) => i \in au_logged

\* ------------------------------------------ claims: concurrent owner lookups
\* The lookups that asked downstream and got a set.
LkFetchedOk == {i \in Lookups : lk_answer[i] # NoLookupAnswer
                                  /\ lk_answer[i].exc = "none" /\ ~is_server_error(lk_answer[i])}

\* C37: lookups of an owner without a cache entry, in progress at the same
\* time: a lookup that has not ended can take its next step; one that ended
\* raised only if its own request met a 5xx or a transport failure; each
\* returned set is one that a request of the round returned; and once all
\* have ended and some request returned a set, the owner's entry is the set
\* of one of these requests.
C37_ConcurrentMisses ==
    lk_missing =>
        /\ \A i \in Lookups :
              /\ lk_pc[i] = "check" => ENABLED LkCheck(i)
              /\ lk_pc[i] = "fetch" => ENABLED LkFetch(i)
              /\ lk_pc[i] = "store" => ENABLED LkStore(i)
              /\ lk_exc[i] # "none"
                 => /\ lk_exc[i] = "BookRecommenderApiServerException"
                    /\ lk_answer[i].exc \notin {"none", "unused"} \/ is_server_error(lk_answer[i])
              /\ (lk_pc[i] = "done" /\ lk_exc[i] = "none")
                 => \E j \in LkFetchedOk : lk_result[i] = FetchedIds(lk_answer[j])
        /\ ((\A i \in Lookups : lk_pc[i] = "done") /\ LkFetchedOk # {})
           => /\ cache_contains(user_read_books_cache, lk_user)
              /\ \E j \in LkFetchedOk :
                    cache_getitem(user_read_books_cache, lk_user).value = FetchedIds(lk_answer[j])

\* Two lookups of an owner without an entry both asked downstream and got
\* different sets; both have ended without an exception and the entry is the
\* set of the second.
C37_Witness ==
    /\ lk_missing
    /\ \A i \in Lookups : lk_pc[i] = "done" /\ lk_exc[i] = "none"
    /\ lk_answer[1].status = 200
    /\ lk_answer[2].status = 200
    /\ lk_answer[1].book_ids # lk_answer[2].book_ids
    /\ lk_answer[2].book_ids # {}
    /\ cache_getitem(user_read_books_cache, lk_user).value = lk_answer[2].book_ids

====
